---- MODULE Spec2Model ----
(***************************************************************************)
(* Model of the backend coordination core of church-youtube-knowledge-bot: *)
(*   - the ingestion state machine (videos, transcripts and the status      *)
(*     trigger of migration 004),                                           *)
(*   - the vector retrieval function search_transcripts (migration 003),    *)
(*   - the credential lifecycle (oauth_tokens, the OAuth callback, the      *)
(*     token manager getYouTubeTokens / disconnectYouTube, encryption).     *)
(* The relational store is the only shared state; every handler is one      *)
(* action.                                                                  *)
(***************************************************************************)
EXTENDS Integers, Sequences, FiniteSets, Bags, TLC

VARIABLES
  churches,      \* table public.churches
  oauth_tokens,  \* table public.oauth_tokens
  videos,        \* table public.videos
  transcripts,   \* table public.transcripts
  now,           \* wall clock, milliseconds (Date.now() / NOW())
  last,          \* the operation that ran last, its arguments and its outcome
  history,       \* statuses observed after successive embedding writes
  processing_jobs, \* table public.processing_jobs
  env,           \* process.env.ENCRYPTION_KEY of the running deployment
  callers        \* handler invocations in flight (getYouTubeTokens, job dispatch), by caller

vars == <<churches, oauth_tokens, videos, transcripts, now, last, history,
         processing_jobs, env, callers>>

(***************************************************************************)
(* Bounds of the model                                                      *)
(***************************************************************************)
MaxRows == 2          \* transcript rows in the store; segment indexes 0 .. MaxRows-1
MaxMatch == 2         \* explicit match_count arguments 0 .. MaxMatch
OrderSegments == 3    \* segments of the video whose embeddings are written in every order
MaxTextLen == 3       \* characters of a plaintext handed to encrypt
MaxJobs == 2          \* rows of processing_jobs at one time
MaxDays == 31         \* the job ledger is followed for this many days
MaxStart == 1         \* start offsets of transcript segments, seconds 0 .. MaxStart
MaxSkew == 12         \* milliseconds an expiry lies before or after the buffer edge
MaxCount == 41700     \* rows with an embedding when the index is rebuilt, 0 .. MaxCount

\* process.env.ENCRYPTION_KEY as deployed
EncryptionKey == "k"
\* process.env.ENCRYPTION_KEY of a deployment that does not set it
NoEncryptionKey == ""
\* no getYouTubeTokens invocation is in flight
NoCalls == <<>>

Churches == {"c1", "c2"}
\* a well-formed tenant id that no churches row carries
UnknownChurch == "c0"
YoutubeVideoIds == {"y1"}

\* SQL NULL of the embedding column
NoEmbedding == <<>>
\* stand-ins for vector(1536): integer vectors whose norms are integers
Vectors == {<<1, 0>>, <<3, 4>>}
Queries == {<<1, 0>>, <<0, 1>>, <<3, 4>>}
SegmentIndexes == 0..(MaxRows - 1)
VideoIds == 1..Cardinality(Churches \X YoutubeVideoIds)

NoRow == [op |-> "none"]

(***************************************************************************)
(* Tables: columns                                                          *)
(***************************************************************************)
VideoStatuses == {"pending", "processing", "completed", "indexed", "failed"}

VideoOf(vs, vid) == CHOOSE v \in vs : v.id = vid

SegmentsOf(ts, vid) == {t \in ts : t.video_id = vid}

\* mutation: a video with some, but not all, embeddings is reported completed
Trigger_PartialAsCompleted(vs, ts, vid) ==
  LET total_segments == Cardinality(SegmentsOf(ts, vid))
      segments_with_embeddings ==
        Cardinality({t \in SegmentsOf(ts, vid) : t.embedding # NoEmbedding})
  IN IF total_segments > 0
     THEN IF segments_with_embeddings = total_segments
          THEN {IF v.id = vid
                THEN [v EXCEPT !.status = "indexed", !.has_embeddings = TRUE]
                ELSE v : v \in vs}
          ELSE {IF v.id = vid /\ v.status # "failed"
                THEN [v EXCEPT !.status = "completed", !.has_embeddings = FALSE]
                ELSE v : v \in vs}
     ELSE vs

\* mutation: the first embedding already marks the video indexed
Trigger_AnyAsIndexed(vs, ts, vid) ==
  LET total_segments == Cardinality(SegmentsOf(ts, vid))
      segments_with_embeddings ==
        Cardinality({t \in SegmentsOf(ts, vid) : t.embedding # NoEmbedding})
  IN IF total_segments > 0
     THEN IF segments_with_embeddings > 0
          THEN {IF v.id = vid
                THEN [v EXCEPT !.status = "indexed", !.has_embeddings = TRUE]
                ELSE v : v \in vs}
          ELSE {IF v.id = vid /\ v.status # "failed"
                THEN [v EXCEPT !.status = "completed", !.has_embeddings = FALSE]
                ELSE v : v \in vs}
     ELSE vs

(***************************************************************************)
(* update_video_status_on_transcript_change: the body of the row trigger,   *)
(* run for NEW.video_id = vid against the transcripts table ts after the    *)
(* write.  Returns the videos table after the trigger.                      *)
(***************************************************************************)
\* mutation: the UPDATE statements have no WHERE id = NEW.video_id
Trigger_NoVideoFilter(vs, ts, vid) ==
  LET total_segments == Cardinality(SegmentsOf(ts, vid))
      segments_with_embeddings ==
        Cardinality({t \in SegmentsOf(ts, vid) : t.embedding # NoEmbedding})
  IN IF total_segments > 0
     THEN IF segments_with_embeddings = total_segments
          THEN {[v EXCEPT !.status = "indexed", !.has_embeddings = TRUE] : v \in vs}
          ELSE IF segments_with_embeddings > 0
          THEN {IF v.status # "failed"
                THEN [v EXCEPT !.status = "processing", !.has_embeddings = FALSE]
                ELSE v : v \in vs}
          ELSE {IF v.status # "failed"
                THEN [v EXCEPT !.status = "completed", !.has_embeddings = FALSE]
                ELSE v : v \in vs}
     ELSE vs

UpdateVideoStatusOnTranscriptChange(vs, ts, vid) ==
  LET total_segments == Cardinality(SegmentsOf(ts, vid))
      segments_with_embeddings ==
        Cardinality({t \in SegmentsOf(ts, vid) : t.embedding # NoEmbedding})
  IN IF total_segments > 0
     THEN IF segments_with_embeddings = total_segments
          THEN {IF v.id = vid
                THEN [v EXCEPT !.status = "indexed", !.has_embeddings = TRUE]
                ELSE v : v \in vs}
          ELSE IF segments_with_embeddings > 0
          THEN {IF v.id = vid /\ v.status # "failed"
                THEN [v EXCEPT !.status = "processing", !.has_embeddings = FALSE]
                ELSE v : v \in vs}
          ELSE {IF v.id = vid /\ v.status # "failed"
                THEN [v EXCEPT !.status = "completed", !.has_embeddings = FALSE]
                ELSE v : v \in vs}
     ELSE vs

(***************************************************************************)
(* POST /api/videos/sync, step 5: upsert of one video record with           *)
(* onConflict (church_id, youtube_video_id).  The record carries            *)
(* status 'pending'; columns it does not carry keep their value on conflict *)
(* and take the column default on insert.                                   *)
(***************************************************************************)
\* mutation: a conflicting row is deleted and inserted afresh
UpsertVideo_Reinsert(vs, c, y) ==
  {v \in vs : ~ (v.church_id = c /\ v.youtube_video_id = y)}
    \cup {[id |-> Cardinality(vs) + 1, church_id |-> c,
            youtube_video_id |-> y, status |-> "pending",
            error_message |-> "", has_embeddings |-> FALSE]}

UpsertVideo(vs, c, y) ==
  IF \E v \in vs : v.church_id = c /\ v.youtube_video_id = y
  THEN {IF v.church_id = c /\ v.youtube_video_id = y
        THEN [v EXCEPT !.status = "pending"]
        ELSE v : v \in vs}
  ELSE vs \cup {[id |-> Cardinality(vs) + 1, church_id |-> c,
                 youtube_video_id |-> y, status |-> "pending",
                 error_message |-> "", has_embeddings |-> FALSE]}

SyncVideo(c, y) ==
  /\ \E ch \in churches : ch.id = c
  /\ videos' = UpsertVideo(videos, c, y)
  /\ last' = [op |-> "sync", church |-> c]
  /\ UNCHANGED <<churches, oauth_tokens, transcripts, now, history, processing_jobs, env, callers>>

(***************************************************************************)
(* INSERT INTO transcripts: one segment row of video vid, written by the    *)
(* transcription worker; the AFTER INSERT trigger recomputes the status.    *)
(* UNIQUE(video_id, segment_index) rejects a duplicate; start_time is a     *)
(* NOT NULL column without any other constraint.                            *)
(***************************************************************************)
InsertSegment(vid, idx, start_time, emb) ==
  /\ \E v \in videos : v.id = vid
  /\ ~ \E t \in transcripts : t.video_id = vid /\ t.segment_index = idx
  /\ Cardinality(transcripts) < MaxRows
  /\ LET v == VideoOf(videos, vid)
         row == [video_id |-> vid, segment_index |-> idx,
                 start_time |-> start_time,
                 church_id |-> v.church_id, embedding |-> emb]
     IN /\ transcripts' = transcripts \cup {row}
        /\ videos' = UpdateVideoStatusOnTranscriptChange(videos, transcripts', vid)
        /\ last' = [op |-> "insert", video |-> vid,
                    before |-> v.status, changed |-> TRUE]
  /\ UNCHANGED <<churches, oauth_tokens, now, history, processing_jobs, env, callers>>

(***************************************************************************)
(* UPDATE transcripts SET embedding = emb for one segment; the AFTER UPDATE *)
(* trigger fires only WHEN OLD.embedding IS DISTINCT FROM NEW.embedding.    *)
(***************************************************************************)
WriteEmbedding(ts, t, emb) ==
  (ts \ {t}) \cup {[t EXCEPT !.embedding = emb]}

SetEmbedding(vid, idx, emb) ==
  /\ \E t \in transcripts : t.video_id = vid /\ t.segment_index = idx
  /\ LET t == CHOOSE r \in transcripts : r.video_id = vid /\ r.segment_index = idx
         v == VideoOf(videos, vid)
     IN /\ transcripts' = WriteEmbedding(transcripts, t, emb)
        /\ videos' = IF t.embedding # emb
                     THEN UpdateVideoStatusOnTranscriptChange(videos, transcripts', vid)
                     ELSE videos
        /\ last' = [op |-> "embed", video |-> vid,
                    before |-> v.status, changed |-> (t.embedding # emb)]
  /\ UNCHANGED <<churches, oauth_tokens, now, processing_jobs, env, callers>>

(***************************************************************************)
(* A processing job that gives up on a video records the failure on the     *)
(* video row.                                                               *)
(***************************************************************************)
MarkVideoFailed(vid) ==
  /\ \E v \in videos : v.id = vid /\ v.status # "failed"
  /\ videos' = {IF v.id = vid
                THEN [v EXCEPT !.status = "failed", !.error_message = "e"]
                ELSE v : v \in videos}
  /\ last' = [op |-> "fail", video |-> vid]
  /\ UNCHANGED <<churches, oauth_tokens, transcripts, now, history, processing_jobs, env, callers>>

(***************************************************************************)
(* pgvector: the cosine distance operator <=> and the similarity            *)
(* 1 - distance, both scaled by 100 (the vectors of the model have integer  *)
(* norms, so the scaled values are integers).                               *)
(***************************************************************************)
Dot(a, b) == a[1] * b[1] + a[2] * b[2]

Norm(a) == CHOOSE n \in 0..5 : n * n = Dot(a, a)

CosineDistance(a, b) == 100 - (100 * Dot(a, b)) \div (Norm(a) * Norm(b))

Similarity(a, b) == 100 - CosineDistance(a, b)

\* mutation: the WHERE clause without the tenant filter
Matching_NoTenantFilter(ts, match_church_id) ==
  {t \in ts : t.embedding # NoEmbedding}

\* the rows the WHERE clause of search_transcripts keeps
Matching(ts, match_church_id) ==
  {t \in ts : t.church_id = match_church_id /\ t.embedding # NoEmbedding}

\* the rows an index scan of idx_transcripts_embedding can reach: the IVFFlat
\* index probes some of its lists only, so any subset of the embedded rows;
\* a sequential scan reaches all of them
Probed(ts) == SUBSET {t \in ts : t.embedding # NoEmbedding}

\* ORDER BY t.embedding <=> query_embedding: every arrangement of the rows
\* in ascending distance (rows at equal distance come in any order)
OrderByDistance(rows, query_embedding) ==
  {s \in [1..Cardinality(rows) -> rows] :
     /\ \A i, j \in DOMAIN s : i # j => s[i] # s[j]
     /\ \A i, j \in DOMAIN s :
          i < j => CosineDistance(s[i].embedding, query_embedding)
                     <= CosineDistance(s[j].embedding, query_embedding)}

\* mutation: the limit lets one row too many through
Limit_OffByOne(s, match_count) ==
  IF match_count + 1 < Len(s) THEN SubSeq(s, 1, match_count + 1) ELSE s

\* LIMIT match_count
Limit(s, match_count) ==
  IF match_count < Len(s) THEN SubSeq(s, 1, match_count) ELSE s

\* the row search_transcripts returns for a table row
ResultRow(t, query_embedding) ==
  [id |-> <<t.video_id, t.segment_index>>, video_id |-> t.video_id,
   segment_index |-> t.segment_index, start_time |-> t.start_time,
   similarity |-> Similarity(t.embedding, query_embedding)]

\* mutation: the WHERE clause without embedding IS NOT NULL; rows with a
\* NULL embedding have a NULL distance and sort last
SearchTranscripts_NoNullFilter(ts, query_embedding, match_church_id, match_count) ==
  LET nulls == {t \in ts : t.church_id = match_church_id /\ t.embedding = NoEmbedding}
      tails == {s \in [1..Cardinality(nulls) -> nulls] :
                  \A i, j \in DOMAIN s : i # j => s[i] # s[j]}
      NullRow(t) == [id |-> <<t.video_id, t.segment_index>>, video_id |-> t.video_id,
                     segment_index |-> t.segment_index, start_time |-> t.start_time,
                     similarity |-> -1]
  IN {Limit([i \in DOMAIN s |-> ResultRow(s[i], query_embedding)]
              \o [i \in DOMAIN n |-> NullRow(n[i])], match_count) :
        s \in OrderByDistance(Matching(ts, match_church_id), query_embedding),
        n \in tails}

(***************************************************************************)
(* search_transcripts(query_embedding, match_church_id, match_count): the   *)
(* set of results the function can return on the table ts.                  *)
(***************************************************************************)
SearchTranscripts(ts, query_embedding, match_church_id, match_count) ==
  {[i \in DOMAIN Limit(s, match_count) |-> ResultRow(s[i], query_embedding)] :
     s \in UNION {OrderByDistance(Matching(p, match_church_id), query_embedding) :
                    p \in Probed(ts)}}

\* match_count DEFAULT 10
DefaultMatchCount == 10

\* the match_count a call passes: an explicit count, or the default when the
\* argument is omitted
MatchCounts == (0..MaxMatch) \cup {DefaultMatchCount}

(***************************************************************************)
(* A caller runs search_transcripts for a tenant.  The function is STABLE:  *)
(* it changes no table; what it can return in a state is                    *)
(* SearchTranscripts(transcripts, query, church, match_count).              *)
(***************************************************************************)
Search(query_embedding, match_church_id) ==
  /\ last' = [op |-> "search", church |-> match_church_id,
              query |-> query_embedding]
  /\ UNCHANGED <<churches, oauth_tokens, videos, transcripts, now, history, processing_jobs, env, callers>>

InitISM ==
  /\ churches = {[id |-> c, youtube_channel_id |-> ""] : c \in Churches}
  /\ oauth_tokens = {}
  /\ videos = {}
  /\ transcripts = {}
  /\ now = 0
  /\ last = NoRow
  /\ history = <<>>
  /\ processing_jobs = {}
  /\ env = EncryptionKey
  /\ callers = NoCalls

\* the transcription worker of this specification writes segment idx with
\* start offset idx
NextISM ==
  \/ \E c \in Churches, y \in YoutubeVideoIds : SyncVideo(c, y)
  \/ \E vid \in VideoIds, idx \in SegmentIndexes,
        emb \in Vectors \cup {NoEmbedding} : InsertSegment(vid, idx, idx, emb)
  \/ \E vid \in VideoIds, idx \in SegmentIndexes,
        emb \in Vectors \cup {NoEmbedding} :
          SetEmbedding(vid, idx, emb) /\ UNCHANGED history
  \/ \E vid \in VideoIds : MarkVideoFailed(vid)
  \/ \E q \in Queries, c \in Churches \cup {UnknownChurch} : Search(q, c)

SpecISM == InitISM /\ [][NextISM]_vars

(***************************************************************************)
(* DELETE FROM transcripts of one segment row.  The status triggers are     *)
(* declared AFTER INSERT and AFTER UPDATE only: a delete fires none.        *)
(***************************************************************************)
DeleteSegment(vid, idx) ==
  /\ \E t \in transcripts : t.video_id = vid /\ t.segment_index = idx
  /\ transcripts' =
       {t \in transcripts : ~(t.video_id = vid /\ t.segment_index = idx)}
  /\ last' = [op |-> "delete.segment", video |-> vid]
  /\ UNCHANGED <<churches, oauth_tokens, videos, now, history, processing_jobs,
                 env, callers>>

\* the videos of both tenants have been synced and have no segment yet
InitWrites ==
  /\ churches = {[id |-> c, youtube_channel_id |-> ""] : c \in Churches}
  /\ oauth_tokens = {}
  /\ videos = UpsertVideo(UpsertVideo({}, "c1", "y1"), "c2", "y1")
  /\ transcripts = {}
  /\ now = 0
  /\ last = NoRow
  /\ history = <<>>
  /\ processing_jobs = {}
  /\ env = EncryptionKey
  /\ callers = NoCalls

\* the writes to the segments of a video: inserts, embedding writes and
\* removals (emb = NoEmbedding), deletions
NextWrites ==
  \/ \E vid \in VideoIds, idx \in SegmentIndexes,
        emb \in Vectors \cup {NoEmbedding} : InsertSegment(vid, idx, idx, emb)
  \/ \E vid \in VideoIds, idx \in SegmentIndexes,
        emb \in Vectors \cup {NoEmbedding} :
          SetEmbedding(vid, idx, emb) /\ UNCHANGED history
  \/ \E vid \in VideoIds, idx \in SegmentIndexes : DeleteSegment(vid, idx)

SpecWrites == InitWrites /\ [][NextWrites]_vars

(***************************************************************************)
(* The transcripts table under writers that choose the start offset of a    *)
(* segment freely: the rows the table accepts.                              *)
(***************************************************************************)
StartTimes == 0..MaxStart

NextSeg ==
  \/ \E c \in Churches, y \in YoutubeVideoIds : SyncVideo(c, y)
  \/ \E vid \in VideoIds, idx \in SegmentIndexes, start_time \in StartTimes,
        emb \in Vectors \cup {NoEmbedding} :
          InsertSegment(vid, idx, start_time, emb)

SpecSeg == InitISM /\ [][NextSeg]_vars
(***************************************************************************)
(* Encryption utilities (AES-256-GCM, PBKDF2 key from ENCRYPTION_KEY and a  *)
(* per-record salt).  Texts and buffers are sequences; the cipher is        *)
(* symbolic: an encrypted byte names the key, the nonce, its position and   *)
(* the plain byte, and the tag names the key, the nonce and the ciphertext. *)
(* The serialized form is one flat string: four base64 fields joined by ':'.*)
(***************************************************************************)
\* crypto.randomBytes: the values a salt and a nonce can take
Salts == {1}
Ivs == {1}

Colon == <<":">>

\* JS null / undefined of a plain string (a byte sequence), and SQL NULL of a
\* column holding a serialized secret
NullText == <<-1>>
NullColumn == <<<<"null">>>>

\* JS truthiness of a string: null, undefined and '' are falsy
Falsy(text) == text = NullText \/ text = <<>>

FalsyColumn(str) == str = NullColumn \/ str = <<>>

GetKey(salt) == <<env, salt>>

\* buf.toString('base64') and Buffer.from(s, 'base64'), byte by byte
ToBase64(buf) == [i \in DOMAIN buf |-> <<"b64", buf[i]>>]

FromBase64(str) == [i \in DOMAIN str |-> str[i][2]]

Join(fields) ==
  fields[1] \o <<Colon>> \o fields[2] \o <<Colon>> \o fields[3]
    \o <<Colon>> \o fields[4]

RECURSIVE Split(_)
Split(str) ==
  IF \A i \in DOMAIN str : str[i] # Colon
  THEN <<str>>
  ELSE LET i == CHOOSE k \in DOMAIN str :
                  str[k] = Colon /\ \A j \in 1..(k - 1) : str[j] # Colon
       IN <<SubSeq(str, 1, i - 1)>> \o Split(SubSeq(str, i + 1, Len(str)))

CipherUpdate(key, iv, bytes) ==
  [i \in DOMAIN bytes |-> <<"ct", key, iv, i, bytes[i]>>]

AuthTag(key, iv, encrypted) == <<"tag", key, iv, encrypted>>

Encrypt(text, salt, iv) ==
  LET key == GetKey(salt)
      encrypted == CipherUpdate(key, iv, text)
      authTag == AuthTag(key, iv, encrypted)
  IN Join(<<ToBase64(<<<<"rand", salt>>>>), ToBase64(<<<<"rand", iv>>>>),
            ToBase64(encrypted), ToBase64(<<authTag>>)>>)

\* mutation: the tag is not verified, the deciphered bytes are returned
Decrypt_NoTagCheck(encryptedText) ==
  LET fields == Split(encryptedText)
      Field(n) == IF n <= Len(fields) THEN fields[n] ELSE <<>>
  IN IF Field(1) = <<>> \/ Field(2) = <<>> \/ Field(3) = <<>> \/ Field(4) = <<>>
     THEN [ok |-> FALSE, text |-> <<>>]
     ELSE LET encrypted == FromBase64(Field(3))
          IN [ok |-> TRUE, text |-> [i \in DOMAIN encrypted |-> encrypted[i][5]]]

\* decrypt: [ok |-> TRUE, text |-> plaintext] or [ok |-> FALSE] when it throws
Decrypt(encryptedText) ==
  LET fields == Split(encryptedText)
      Field(n) == IF n <= Len(fields) THEN fields[n] ELSE <<>>
  IN IF Field(1) = <<>> \/ Field(2) = <<>> \/ Field(3) = <<>> \/ Field(4) = <<>>
     THEN [ok |-> FALSE, text |-> <<>>]
     ELSE LET salt == FromBase64(Field(1))
              iv == FromBase64(Field(2))
              encrypted == FromBase64(Field(3))
              authTag == FromBase64(Field(4))
              key == GetKey(salt[1][2])
          IN IF authTag = <<AuthTag(key, iv[1][2], encrypted)>>
             THEN [ok |-> TRUE, text |-> [i \in DOMAIN encrypted |-> encrypted[i][5]]]
             ELSE [ok |-> FALSE, text |-> <<>>]

(***************************************************************************)
(* Time.  Date.now() and expiry_date are numbers of milliseconds; the       *)
(* expires_at column is written and read as an ISO 8601 string, which keeps *)
(* the milliseconds.                                                        *)
(***************************************************************************)
\* undefined / null of a number
NullTime == -1

\* SQL NULL of a TIMESTAMPTZ column
NullTimestamp == [iso |-> "null", ms |-> 0]

\* new Date(ms).toISOString()
ToISOString(ms) == [iso |-> "Z", ms |-> ms]

\* new Date(isoString).getTime()
DateGetTime(ts) == ts.ms

BufferMinutes == 5

\* the lifetime the provider gives an access token, and the step of the clock
HourMs == 60 * 60 * 1000
TickMs == 57 * 60 * 1000
MaxTicks == 1

\* mutation: the buffer is left out
IsTokenExpired_NoBuffer(expiryDate, bufferMinutes, at) ==
  IF expiryDate = NullTime \/ expiryDate = 0
  THEN TRUE
  ELSE expiryDate < at

\* isTokenExpired(expiryDate, bufferMinutes) evaluated when Date.now() = at
IsTokenExpired(expiryDate, bufferMinutes, at) ==
  IF expiryDate = NullTime \/ expiryDate = 0
  THEN TRUE
  ELSE LET buffer == bufferMinutes * 60 * 1000
       IN expiryDate - buffer < at

(***************************************************************************)
(* The provider (Google OAuth): the answers a token exchange and a refresh  *)
(* call can give when Date.now() = at.                                      *)
(***************************************************************************)
AccessTokens == {<<1>>, <<2>>}
RefreshTokens == {<<3>>}
Channels == {"ch1", "ch2"}

ExpiryDates(at) == {NullTime, at + BufferMinutes * 60 * 1000, at + HourMs}

\* why oauth2Client.refreshAccessToken() throws: the provider rejects the
\* refresh secret for good, or the request does not get through
RefreshFailures == {"invalid_grant", "network"}

\* oauth2Client.refreshAccessToken(): it throws, or yields credentials
\* (for a reason in RefreshFailures)
RefreshAnswers(at) ==
  [ok : {FALSE}, access_token : {<<>>}, expiry_date : {NullTime},
   failure : RefreshFailures]
    \cup [ok : {TRUE}, access_token : AccessTokens, expiry_date : ExpiryDates(at),
          failure : {""}]

\* no refresh call was made
NoAnswer == [ok |-> FALSE, access_token |-> NullText, expiry_date |-> NullTime,
             failure |-> ""]

\* the callback stored nothing
NoExchange == [access_token |-> NullText, refresh_token |-> NullText,
               expiry_date |-> NullTime]

\* oauth2Client.getToken(code)
ExchangeAnswers(at) ==
  [access_token : AccessTokens, refresh_token : RefreshTokens \cup {NullText},
   expiry_date : {NullTime, at + HourMs}]

(***************************************************************************)
(* oauth_tokens rows                                                        *)
(***************************************************************************)
TokenRows(rows, c, p) == {t \in rows : t.church_id = c /\ t.provider = p}

\* mutation: a plain insert, no ON CONFLICT
UpsertToken_Insert(rows, row) == rows \cup {row}

\* upsert with onConflict (church_id, provider)
UpsertToken(rows, row) ==
  {t \in rows : ~(t.church_id = row.church_id /\ t.provider = row.provider)}
    \cup {row}

\* mutation: the update leaves out the access secret
UpdateRefreshed_ExpiryOnly(rows, c, encryptedAccessToken, expires_at) ==
  {IF t.church_id = c /\ t.provider = "youtube"
   THEN [t EXCEPT !.expires_at = expires_at]
   ELSE t : t \in rows}

\* mutation: the update is filtered by provider only
UpdateRefreshed_AllTenants(rows, c, encryptedAccessToken, expires_at) ==
  {IF t.provider = "youtube"
   THEN [t EXCEPT !.access_token = encryptedAccessToken,
                  !.expires_at = expires_at]
   ELSE t : t \in rows}

\* mutation: the refreshed access secret is saved without its expiry
UpdateRefreshed_KeepExpiry(rows, c, encryptedAccessToken, expires_at) ==
  {IF t.church_id = c /\ t.provider = "youtube"
   THEN [t EXCEPT !.access_token = encryptedAccessToken]
   ELSE t : t \in rows}

\* mutation: the refresh path upserts the row
UpdateRefreshed_Upsert(rows, c, encryptedAccessToken, expires_at) ==
  IF \E t \in rows : t.church_id = c /\ t.provider = "youtube"
  THEN {IF t.church_id = c /\ t.provider = "youtube"
        THEN [t EXCEPT !.access_token = encryptedAccessToken,
                       !.expires_at = expires_at]
        ELSE t : t \in rows}
  ELSE rows \cup {[church_id |-> c, provider |-> "youtube",
                   access_token |-> encryptedAccessToken,
                   refresh_token |-> NullColumn,
                   expires_at |-> expires_at,
                   scope |-> "youtube", token_type |-> "Bearer"]}

\* getYouTubeTokens: update({access_token, expires_at, updated_at})
\* .eq(church_id).eq(provider, 'youtube')
UpdateRefreshed(rows, c, encryptedAccessToken, expires_at) ==
  {IF t.church_id = c /\ t.provider = "youtube"
   THEN [t EXCEPT !.access_token = encryptedAccessToken,
                  !.expires_at = expires_at]
   ELSE t : t \in rows}

\* mutation: a failed refresh drops the stale credential
OnRefreshFailure_Delete(rows, c) ==
  {t \in rows : ~(t.church_id = c /\ t.provider = "youtube")}

\* getYouTubeTokens, catch block: the error is rethrown, the store is not
\* written
OnRefreshFailure(rows, c) == rows

\* error messages of getYouTubeTokens
ErrNotConnected == "YouTube not connected. Please connect your YouTube channel first."
ErrNoRefreshToken == "YouTube access token expired and no refresh token available. Please reconnect your YouTube channel."
ErrRefreshFailed == "Failed to refresh YouTube access token: ... Please reconnect your YouTube channel."
ErrDecrypt == "decrypt"

NoTokens == [accessToken |-> NullText, refreshToken |-> NullText,
             expiresAt |-> NullTimestamp]

(***************************************************************************)
(* getYouTubeTokens(churchId) run by tenant c when Date.now() = now.        *)
(*   fetchFail  - the select returns an error                               *)
(*   answer     - what the provider answers if the refresh call is made     *)
(*   updateFail - the update of the refreshed row returns an error          *)
(*   iv         - the nonce encrypt draws                                   *)
(* The outcome is a record: error ("" on success), tokens returned, number  *)
(* of refresh calls made, and the oauth_tokens table afterwards.            *)
(***************************************************************************)
GetYouTubeTokensResult(rows, c, fetchFail, answer, updateFail, salt, iv, at) ==
  LET found == TokenRows(rows, c, "youtube")
      Fail(e, calls, after) ==
        [error |-> e, tokens |-> NoTokens, refreshCalls |-> calls, rows |-> after]
  IN IF fetchFail \/ found = {}
     THEN Fail(ErrNotConnected, 0, rows)
     ELSE
       LET tokenData == CHOOSE t \in found : TRUE
           access == Decrypt(tokenData.access_token)
           refresh == IF FalsyColumn(tokenData.refresh_token)
                      THEN [ok |-> TRUE, text |-> NullText]
                      ELSE Decrypt(tokenData.refresh_token)
           expiryDate == IF tokenData.expires_at # NullTimestamp
                         THEN DateGetTime(tokenData.expires_at)
                         ELSE NullTime
       IN IF ~access.ok \/ ~refresh.ok
          THEN Fail(ErrDecrypt, 0, rows)
          ELSE IF IsTokenExpired(expiryDate, BufferMinutes, at)
          THEN IF Falsy(refresh.text)
               THEN Fail(ErrNoRefreshToken, 0, rows)
               ELSE IF ~answer.ok \/ Falsy(answer.access_token)
               THEN Fail(ErrRefreshFailed, 1, OnRefreshFailure(rows, c))
               ELSE IF updateFail
               THEN Fail(ErrRefreshFailed, 1, OnRefreshFailure(rows, c))
               ELSE LET expires_at ==
                          IF answer.expiry_date # NullTime /\ answer.expiry_date # 0
                          THEN ToISOString(answer.expiry_date)
                          ELSE NullTimestamp
                    IN [error |-> "",
                        tokens |-> [accessToken |-> answer.access_token,
                                    refreshToken |-> refresh.text,
                                    expiresAt |-> expires_at],
                        refreshCalls |-> 1,
                        rows |-> UpdateRefreshed(rows, c,
                                   Encrypt(answer.access_token, salt, iv),
                                   expires_at)]
          ELSE [error |-> "",
                tokens |-> [accessToken |-> access.text,
                            refreshToken |-> refresh.text,
                            expiresAt |-> tokenData.expires_at],
                refreshCalls |-> 0,
                rows |-> rows]

GetYouTubeTokens(c, fetchFail, answer, updateFail, salt, iv) ==
  \E r \in {GetYouTubeTokensResult(oauth_tokens, c, fetchFail, answer, updateFail,
                                  salt, iv, now)} :
     /\ oauth_tokens' = r.rows
     /\ last' = [op |-> "get", church |-> c, fetchError |-> fetchFail,
                 error |-> r.error,
                 tokens |-> r.tokens, refreshCalls |-> r.refreshCalls,
                 answer |-> IF r.refreshCalls > 0 THEN answer ELSE NoAnswer,
                 before |-> oauth_tokens]
     /\ UNCHANGED <<churches, videos, transcripts, now, history, processing_jobs, env, callers>>

(***************************************************************************)
(* disconnectYouTube(churchId): delete the credential row, then clear the   *)
(* channel columns of the tenant row (the result of that update is not      *)
(* looked at).                                                              *)
(***************************************************************************)
DisconnectYouTube(c, deleteFail) ==
  /\ IF deleteFail
     THEN UNCHANGED <<oauth_tokens, churches>>
     ELSE /\ oauth_tokens' =
               {t \in oauth_tokens : ~(t.church_id = c /\ t.provider = "youtube")}
          /\ churches' = {IF ch.id = c
                          THEN [ch EXCEPT !.youtube_channel_id = ""]
                          ELSE ch : ch \in churches}
  /\ last' = [op |-> "disconnect", church |-> c,
              error |-> IF deleteFail THEN "Failed to disconnect YouTube" ELSE ""]
  /\ UNCHANGED <<videos, transcripts, now, history, processing_jobs, env, callers>>

(***************************************************************************)
(* GET /api/youtube/callback for the signed-in user c.                      *)
(*   fault   - where the handler stops: "denied" (error=access_denied),     *)
(*             "missing" (no code or state), "session" (no user), "state"   *)
(*             (stored state expired), "exchange", "channel" (the provider  *)
(*             calls throw), "church", "token" (the store returns an error),*)
(*             or "none"                                                    *)
(* Step 7 encrypts the tokens after step 6 has written the tenant row;      *)
(* encrypt throws in getKey when ENCRYPTION_KEY is not set (outcome         *)
(* "encrypt").                                                              *)
(*   tokens  - the answer of the code exchange                              *)
(*   channel - the channel id getChannelInfo reports                        *)
(* churches.youtube_channel_id is UNIQUE: writing a channel id another      *)
(* tenant holds fails like a store error.                                   *)
(***************************************************************************)
ChannelTaken(chs, c, channel) ==
  \E ch \in chs : ch.id # c /\ ch.youtube_channel_id = channel

\* steps 6: get or create the tenant row, set its channel
EnsureChurch(chs, c, channel) ==
  IF \E ch \in chs : ch.id = c
  THEN {IF ch.id = c THEN [ch EXCEPT !.youtube_channel_id = channel] ELSE ch :
          ch \in chs}
  ELSE chs \cup {[id |-> c, youtube_channel_id |-> channel]}

\* steps 7-8: the row the callback upserts
CallbackRow(c, tokens, salt, ivA, ivR) ==
  [church_id |-> c, provider |-> "youtube",
   access_token |-> Encrypt(tokens.access_token, salt, ivA),
   refresh_token |-> IF Falsy(tokens.refresh_token)
                     THEN NullColumn
                     ELSE Encrypt(tokens.refresh_token, salt, ivR),
   expires_at |-> IF tokens.expiry_date # NullTime /\ tokens.expiry_date # 0
                  THEN ToISOString(tokens.expiry_date)
                  ELSE NullTimestamp,
   scope |-> "youtube", token_type |-> "Bearer"]

\* a run of the handler; request is what step 3 compared (NoRequest when the
\* run is described by its fault alone)
NoRequest == [state |-> "", oauth_state |-> "", oauth_state_expires |-> NullTime,
              read |-> FALSE]

CallbackFrom(c, fault, tokens, channel, salt, ivA, ivR, request) ==
  LET before == TokenRows(oauth_tokens, c, "youtube")
      Done(outcome) ==
        last' = [op |-> "callback",
                 \* the handler learns the user in step 2, after these returns
                 church |-> IF outcome \in {"denied", "missing", "session"}
                            THEN "" ELSE c,
                 outcome |-> outcome,
                 tokens |-> IF outcome = "ok" THEN tokens ELSE NoExchange,
                 existed |-> (before # {}),
                 request |-> request]
  IN /\ IF fault \in {"denied", "missing", "session", "state", "exchange", "channel"}
        THEN /\ UNCHANGED <<churches, oauth_tokens>>
             /\ Done(fault)
        ELSE IF fault = "church" \/ ChannelTaken(churches, c, channel)
        THEN /\ UNCHANGED <<churches, oauth_tokens>>
             /\ Done("church")
        ELSE /\ churches' = EnsureChurch(churches, c, channel)
             /\ IF env = NoEncryptionKey
                THEN /\ UNCHANGED oauth_tokens
                     /\ Done("encrypt")
                ELSE IF fault = "token"
                THEN /\ UNCHANGED oauth_tokens
                     /\ Done("token")
                ELSE /\ oauth_tokens' =
                          UpsertToken(oauth_tokens,
                                      CallbackRow(c, tokens, salt, ivA, ivR))
                     /\ Done("ok")
     /\ UNCHANGED <<videos, transcripts, now, history, processing_jobs, env, callers>>

Callback(c, fault, tokens, channel, salt, ivA, ivR) ==
  CallbackFrom(c, fault, tokens, channel, salt, ivA, ivR, NoRequest)

CallbackFaults ==
  {"none", "denied", "missing", "session", "state", "exchange", "channel",
   "church", "token"}

\* the inputs a run of the handler reads: the exchange answer when the store
\* takes the row made of it, the channel id when it gets to write it
ExchangeInputs(fault, at) ==
  IF fault = "none" THEN ExchangeAnswers(at) ELSE {NoExchange}

ChannelInputs(fault) ==
  IF fault \in {"none", "token", "church"} THEN Channels ELSE {""}

\* the refresh answer and the result of the update matter to a get that
\* fetched the row, the latter after a refresh call that succeeded
RefreshInputs(fetchFail, at) ==
  IF fetchFail THEN {NoAnswer} ELSE RefreshAnswers(at)

UpdateInputs(answer) == IF answer.ok THEN BOOLEAN ELSE {FALSE}

Tick ==
  /\ now < MaxTicks * TickMs
  /\ now' = now + TickMs
  /\ last' = [op |-> "tick"]
  /\ UNCHANGED <<churches, oauth_tokens, videos, transcripts, history, processing_jobs, env, callers>>

InitCLM ==
  /\ churches = {}
  /\ oauth_tokens = {}
  /\ videos = {}
  /\ transcripts = {}
  /\ now = 0
  /\ last = NoRow
  /\ history = <<>>
  /\ processing_jobs = {}
  /\ env = EncryptionKey
  /\ callers = NoCalls

NextCLM ==
  \/ \E c \in Churches, fault \in CallbackFaults :
       \E tokens \in ExchangeInputs(fault, now), channel \in ChannelInputs(fault),
          salt \in Salts, ivA \in Ivs, ivR \in Ivs :
          Callback(c, fault, tokens, channel, salt, ivA, ivR)
  \/ \E c \in Churches, fetchFail \in BOOLEAN :
       \E answer \in RefreshInputs(fetchFail, now) :
         \E updateFail \in UpdateInputs(answer), salt \in Salts, iv \in Ivs :
          GetYouTubeTokens(c, fetchFail, answer, updateFail, salt, iv)
  \/ \E c \in Churches, deleteFail \in BOOLEAN : DisconnectYouTube(c, deleteFail)
  \/ Tick

SpecCLM == InitCLM /\ [][NextCLM]_vars

(***************************************************************************)
(* The state parameter of the OAuth callback.  The connect route stores a   *)
(* random state and its expiry, ten minutes ahead, in the user's metadata   *)
(* and hands the state to generateAuthUrl; the callback reads both back.    *)
(*   state               - the state parameter of the request ("" missing)  *)
(*   oauth_state         - user_metadata.oauth_state ("" when not set)      *)
(*   oauth_state_expires - user_metadata.oauth_state_expires                *)
(***************************************************************************)
StateLifetimeMinutes == 10

States == {"s1", "s2"}

\* the user's metadata: nothing stored, or a state stored at time 0
UserMetadata ==
  {[oauth_state |-> "", oauth_state_expires |-> NullTime],
   [oauth_state |-> "s1",
    oauth_state_expires |-> StateLifetimeMinutes * 60 * 1000]}

\* steps 1 and 3: the return the state makes the handler take, "none" when
\* it goes on to the code exchange
VerifyState(state, oauth_state, oauth_state_expires, at) ==
  IF state = "" THEN "missing"
  ELSE IF oauth_state_expires # NullTime /\ oauth_state_expires < at THEN "state"
  ELSE "none"

LaterFaults == {"none", "exchange", "channel", "church", "token"}

CallbackRequest(c, state, metadata, fault, tokens, channel, salt, ivA, ivR) ==
  \E verdict \in {VerifyState(state, metadata.oauth_state,
                              metadata.oauth_state_expires, now)} :
    CallbackFrom(c, IF verdict = "none" THEN fault ELSE verdict,
                 tokens, channel, salt, ivA, ivR,
                 [state |-> state, oauth_state |-> metadata.oauth_state,
                  oauth_state_expires |-> metadata.oauth_state_expires,
                  read |-> TRUE])

NextState ==
  \/ \E c \in Churches, state \in States \cup {""}, metadata \in UserMetadata,
        fault \in LaterFaults :
       \E tokens \in ExchangeInputs(fault, now), channel \in ChannelInputs(fault),
          salt \in Salts, ivA \in Ivs, ivR \in Ivs :
          CallbackRequest(c, state, metadata, fault, tokens, channel, salt, ivA, ivR)
  \/ Tick

SpecState == InitCLM /\ [][NextState]_vars

(***************************************************************************)
(* Embedding job on one video: the embeddings of its segments are written   *)
(* one after another, in any order.  Starts from a video that has its       *)
(* segments and no embedding yet (status completed, or pending after a      *)
(* re-sync); history records each write and the status it left.             *)
(***************************************************************************)
InitOrder ==
  /\ churches = {[id |-> c, youtube_channel_id |-> ""] : c \in Churches}
  /\ oauth_tokens = {}
  /\ \E st \in {"completed", "pending"} :
       videos = {[id |-> 1, church_id |-> "c1", youtube_video_id |-> "y1",
                  status |-> st, error_message |-> "", has_embeddings |-> FALSE]}
  /\ \E n \in 1..OrderSegments :
       transcripts = {[video_id |-> 1, segment_index |-> i, start_time |-> i,
                       church_id |-> "c1",
                       embedding |-> NoEmbedding] : i \in 0..(n - 1)}
  /\ now = 0
  /\ last = NoRow
  /\ history = <<>>
  /\ processing_jobs = {}
  /\ env = EncryptionKey
  /\ callers = NoCalls

WriteNextEmbedding(idx, emb) ==
  /\ \E t \in transcripts :
       t.video_id = 1 /\ t.segment_index = idx /\ t.embedding = NoEmbedding
  /\ SetEmbedding(1, idx, emb)
  /\ history' = Append(history, [segment_index |-> idx,
                                 status |-> VideoOf(videos', 1).status])

NextOrder ==
  \E idx \in 0..(OrderSegments - 1), emb \in Vectors : WriteNextEmbedding(idx, emb)

SpecOrder == InitOrder /\ [][NextOrder]_vars

(***************************************************************************)
(* The encryption utilities on their own: a text is encrypted, and the      *)
(* serialized form is decrypted again.                                      *)
(***************************************************************************)
\* characters of a plaintext; the last one is the field delimiter itself
PlainChars == {<<"a">>, <<"b">>, Colon}

RECURSIVE Texts(_)
Texts(n) ==
  IF n = 0 THEN {<<>>}
  ELSE Texts(n - 1) \cup
       {Append(t, ch) : t \in {u \in Texts(n - 1) : Len(u) = n - 1},
                        ch \in PlainChars}

InitEnc ==
  /\ churches = {}
  /\ oauth_tokens = {}
  /\ videos = {}
  /\ transcripts = {}
  /\ now = 0
  /\ last \in {[op |-> "text", text |-> t] : t \in Texts(MaxTextLen)}
  /\ history = <<>>
  /\ processing_jobs = {}
  /\ env = EncryptionKey
  /\ callers = NoCalls

EncryptText(salt, iv) ==
  /\ last.op = "text"
  /\ last' = [op |-> "encrypt", text |-> last.text,
              encrypted |-> Encrypt(last.text, salt, iv)]
  /\ UNCHANGED <<churches, oauth_tokens, videos, transcripts, now, history,
                 processing_jobs, env, callers>>

DecryptText ==
  /\ last.op = "encrypt"
  /\ last' = [op |-> "decrypt", text |-> last.text, encrypted |-> last.encrypted,
              decrypted |-> Decrypt(last.encrypted)]
  /\ UNCHANGED <<churches, oauth_tokens, videos, transcripts, now, history,
                 processing_jobs, env, callers>>

NextEnc ==
  \/ \E salt \in Salts, iv \in Ivs : EncryptText(salt, iv)
  \/ DecryptText

SpecEnc == InitEnc /\ [][NextEnc]_vars

(***************************************************************************)
(* The credential lifecycle of one tenant across deployments: the process   *)
(* secret ENCRYPTION_KEY is read from the environment on every encrypt and  *)
(* decrypt, and a redeployment can change it while rows stay in the store.  *)
(***************************************************************************)
EncryptionKeys == {EncryptionKey, "k2"}
KeyChurches == {"c1"}

Redeploy(key) ==
  /\ key # env
  /\ env' = key
  /\ last' = [op |-> "redeploy"]
  /\ UNCHANGED <<churches, oauth_tokens, videos, transcripts, now, history,
                 processing_jobs, callers>>

NextKey ==
  \/ \E c \in KeyChurches, fault \in CallbackFaults :
       \E tokens \in ExchangeInputs(fault, now), channel \in ChannelInputs(fault),
          salt \in Salts, ivA \in Ivs, ivR \in Ivs :
          Callback(c, fault, tokens, channel, salt, ivA, ivR)
  \/ \E c \in KeyChurches, fetchFail \in BOOLEAN :
       \E answer \in RefreshInputs(fetchFail, now) :
         \E updateFail \in UpdateInputs(answer), salt \in Salts, iv \in Ivs :
          GetYouTubeTokens(c, fetchFail, answer, updateFail, salt, iv)
  \/ \E c \in KeyChurches, deleteFail \in BOOLEAN : DisconnectYouTube(c, deleteFail)
  \/ Tick
  \/ \E key \in EncryptionKeys : Redeploy(key)

SpecKey == InitCLM /\ [][NextKey]_vars

\* deployments that may also come up without ENCRYPTION_KEY: nothing reads
\* the variable before the first encrypt or decrypt of a request
NextNoKey ==
  \/ NextKey
  \/ Redeploy(NoEncryptionKey)

SpecNoKey == InitCLM /\ [][NextNoKey]_vars

(***************************************************************************)
(* getYouTubeTokens step by step, for callers that run concurrently.  Each  *)
(* await of the handler is one step: the select (with the decryption and    *)
(* the expiry test that follow it in the caller), the outbound refresh      *)
(* call, and the update.  A caller keeps what it read in its own locals.    *)
(***************************************************************************)
Callers == {1, 2}

Idle ==
  [pc |-> "idle", church |-> "", refreshToken |-> NullText, answer |-> NoAnswer,
   error |-> "", tokens |-> NoTokens, refreshCalls |-> 0]

Returned(caller, error, tokens) ==
  [caller EXCEPT !.pc = "done", !.error = error, !.tokens = tokens]

\* lines 34-65: select, decrypt, isTokenExpired, the refresh secret test
GetFetch(p, c, fetchFail) ==
  LET me == [callers[p] EXCEPT !.church = c]
      found == TokenRows(oauth_tokens, c, "youtube")
      tokenData == CHOOSE t \in found : TRUE
      access == Decrypt(tokenData.access_token)
      refresh == IF FalsyColumn(tokenData.refresh_token)
                 THEN [ok |-> TRUE, text |-> NullText]
                 ELSE Decrypt(tokenData.refresh_token)
      expiryDate == IF tokenData.expires_at # NullTimestamp
                    THEN DateGetTime(tokenData.expires_at)
                    ELSE NullTime
  IN /\ callers[p].pc = "idle"
     /\ callers' = [callers EXCEPT ![p] =
          IF fetchFail \/ found = {}
          THEN Returned(me, ErrNotConnected, NoTokens)
          ELSE IF ~access.ok \/ ~refresh.ok
          THEN Returned(me, ErrDecrypt, NoTokens)
          ELSE IF IsTokenExpired(expiryDate, BufferMinutes, now)
          THEN IF Falsy(refresh.text)
               THEN Returned(me, ErrNoRefreshToken, NoTokens)
               ELSE [me EXCEPT !.pc = "refreshing", !.refreshToken = refresh.text]
          ELSE Returned(me, "", [accessToken |-> access.text,
                                 refreshToken |-> refresh.text,
                                 expiresAt |-> tokenData.expires_at])]
     /\ last' = [op |-> "get.fetch", caller |-> p]
     /\ UNCHANGED <<churches, oauth_tokens, videos, transcripts, now, history,
                    processing_jobs, env>>

\* line 69: await refreshAccessToken(decryptedRefreshToken)
GetRefresh(p, answer) ==
  /\ callers[p].pc = "refreshing"
  /\ callers' = [callers EXCEPT ![p] =
       IF ~answer.ok \/ Falsy(answer.access_token)
       THEN Returned([@ EXCEPT !.refreshCalls = 1, !.answer = answer],
                     ErrRefreshFailed, NoTokens)
       ELSE [@ EXCEPT !.pc = "updating", !.refreshCalls = 1, !.answer = answer]]
  /\ last' = [op |-> "get.refresh", caller |-> p]
  /\ UNCHANGED <<churches, oauth_tokens, videos, transcripts, now, history,
                 processing_jobs, env>>

\* lines 72-99: encrypt, update oauth_tokens, return the refreshed secret
GetUpdate(p, updateFail, salt, iv) ==
  LET me == callers[p]
      expires_at == IF me.answer.expiry_date # NullTime /\ me.answer.expiry_date # 0
                    THEN ToISOString(me.answer.expiry_date)
                    ELSE NullTimestamp
  IN /\ me.pc = "updating"
     /\ IF updateFail
        THEN /\ oauth_tokens' = OnRefreshFailure(oauth_tokens, me.church)
             /\ callers' = [callers EXCEPT ![p] =
                              Returned(me, ErrRefreshFailed, NoTokens)]
        ELSE /\ oauth_tokens' =
                  UpdateRefreshed(oauth_tokens, me.church,
                                  Encrypt(me.answer.access_token, salt, iv),
                                  expires_at)
             /\ callers' = [callers EXCEPT ![p] =
                              Returned(me, "",
                                       [accessToken |-> me.answer.access_token,
                                        refreshToken |-> me.refreshToken,
                                        expiresAt |-> expires_at])]
     /\ last' = [op |-> "get.update", caller |-> p]
     /\ UNCHANGED <<churches, videos, transcripts, now, history,
                    processing_jobs, env>>

\* a tenant that connected at time 0, seen at once or two ticks later
InitConc ==
  /\ env = EncryptionKey
  /\ churches = EnsureChurch({}, "c1", "ch1")
  /\ \E tokens \in ExchangeAnswers(0) :
       oauth_tokens = UpsertToken({}, CallbackRow("c1", tokens, 1, 1, 1))
  /\ videos = {}
  /\ transcripts = {}
  /\ now \in {0, 2 * TickMs}
  /\ last = NoRow
  /\ history = <<>>
  /\ processing_jobs = {}
  /\ callers = [p \in Callers |-> Idle]

NextConc ==
  \/ \E p \in Callers, fetchFail \in BOOLEAN : GetFetch(p, "c1", fetchFail)
  \/ \E p \in Callers, answer \in RefreshAnswers(now) : GetRefresh(p, answer)
  \/ \E p \in Callers, updateFail \in BOOLEAN, salt \in Salts, iv \in Ivs :
       GetUpdate(p, updateFail, salt, iv)

SpecConc == InitConc /\ [][NextConc]_vars

(***************************************************************************)
(* A tenant reconnects through the OAuth callback while gets are in         *)
(* flight.  The provider binds an access secret to the authorization grant  *)
(* of the refresh secret it was obtained with: the first grant has the      *)
(* refresh secret of RefreshTokens and the access secrets of AccessTokens,  *)
(* the grant of the reconnection has those below.                           *)
(***************************************************************************)
NewAccessTokens == {<<5>>}
NewRefreshTokens == {<<4>>}

\* the access secrets of the grant a refresh secret belongs to
AccessOf(refreshToken) ==
  IF refreshToken \in NewRefreshTokens THEN NewAccessTokens ELSE AccessTokens

\* oauth2Client.getToken(code) of the reconnection
ReconnectAnswers(at) ==
  [access_token : NewAccessTokens, refresh_token : NewRefreshTokens,
   expiry_date : {NullTime, at + HourMs}]

\* oauth2Client.refreshAccessToken() called with the refresh secret
RefreshAnswersFor(refreshToken, at) ==
  {a \in RefreshAnswers(at) : ~a.ok}
    \cup [ok : {TRUE}, access_token : AccessOf(refreshToken),
          expiry_date : ExpiryDates(at), failure : {""}]

NextReconnect ==
  \/ \E p \in Callers, fetchFail \in BOOLEAN : GetFetch(p, "c1", fetchFail)
  \/ \E p \in Callers :
       \E answer \in RefreshAnswersFor(callers[p].refreshToken, now) :
         GetRefresh(p, answer)
  \/ \E p \in Callers, updateFail \in BOOLEAN, salt \in Salts, iv \in Ivs :
       GetUpdate(p, updateFail, salt, iv)
  \/ \E tokens \in ReconnectAnswers(now), salt \in Salts, ivA \in Ivs, ivR \in Ivs :
       Callback("c1", "none", tokens, "ch1", salt, ivA, ivR)

SpecReconnect == InitConc /\ [][NextReconnect]_vars

(***************************************************************************)
(* Two connected tenants; the first one disconnects, and reconnects, while  *)
(* its gets are in flight.                                                  *)
(***************************************************************************)
InitDisconnect ==
  /\ env = EncryptionKey
  /\ churches = EnsureChurch(EnsureChurch({}, "c1", "ch1"), "c2", "ch2")
  /\ \E tokens \in ExchangeAnswers(0) :
       /\ ~Falsy(tokens.refresh_token)
       /\ oauth_tokens =
            UpsertToken(UpsertToken({}, CallbackRow("c1", tokens, 1, 1, 1)),
                        CallbackRow("c2", tokens, 1, 1, 1))
  /\ videos = {}
  /\ transcripts = {}
  /\ now \in {0, 2 * TickMs}
  /\ last = NoRow
  /\ history = <<>>
  /\ processing_jobs = {}
  /\ callers = [p \in Callers |-> Idle]

NextDisconnect ==
  \/ NextReconnect
  \/ \E deleteFail \in BOOLEAN : DisconnectYouTube("c1", deleteFail)

SpecDisconnect == InitDisconnect /\ [][NextDisconnect]_vars

(***************************************************************************)
(* The job ledger: table processing_jobs, the dispatch and the status       *)
(* reports of the workers, and the retention sweep                          *)
(* cleanup_old_processing_jobs.  In this specification the clock `now`      *)
(* counts days.  The dispatcher and the workers are not part of the         *)
(* sources at hand (README: app/api/webhooks, n8n-workflows); they follow   *)
(* the specification of job dispatch and tracking: a dispatch looks for an  *)
(* active job of the type and inserts a row when it finds none, a worker    *)
(* reports running, then completed or failed.                               *)
(***************************************************************************)
JobTypes == {"transcription", "embedding_generation"}
Dispatchers == {1, 2}
JobIds == 1..MaxJobs
\* SQL NULL of a timestamp column
NullDay == -1
RetentionDays == 30
\* the days on which something happens: day 0, the day after it, and the days
\* from the one on which a job that ended on day 0 leaves the retention window
Instants == {0, 1} \cup (RetentionDays + 1)..MaxDays

ActiveStatuses == {"pending", "running"}
TerminalStatuses == {"completed", "failed"}

ActiveJobs(jobs, vid, type) ==
  {j \in jobs : j.video_id = vid /\ j.job_type = type /\ j.status \in ActiveStatuses}

\* mutation: the column default of status is 'running'
InsertJob_Running(jobs, c, vid, type, at) ==
  jobs \cup {[id |-> CHOOSE i \in JobIds : \A j \in jobs : j.id # i,
              church_id |-> c, video_id |-> vid, job_type |-> type,
              status |-> "running", created_at |-> at, completed_at |-> NullDay]}

\* INSERT INTO processing_jobs (church_id, video_id, job_type): id, status and
\* created_at take their column defaults
InsertJob(jobs, c, vid, type, at) ==
  jobs \cup {[id |-> CHOOSE i \in JobIds : \A j \in jobs : j.id # i,
              church_id |-> c, video_id |-> vid, job_type |-> type,
              status |-> "pending", created_at |-> at, completed_at |-> NullDay]}

IdleDispatch == [pc |-> "idle", video |-> 0, job_type |-> ""]

\* dispatch, first step: look for an active job of the type
DispatchCheck(d, vid, type) ==
  /\ callers[d].pc = "idle"
  /\ \E v \in videos : v.id = vid
  /\ callers' = [callers EXCEPT ![d] =
       IF ActiveJobs(processing_jobs, vid, type) # {}
       THEN IdleDispatch
       ELSE [pc |-> "inserting", video |-> vid, job_type |-> type]]
  /\ last' = [op |-> "dispatch.check",
              outcome |-> IF ActiveJobs(processing_jobs, vid, type) # {}
                          THEN "JobAlreadyActive" ELSE ""]
  /\ UNCHANGED <<churches, oauth_tokens, videos, transcripts, now, history,
                 processing_jobs, env>>

\* dispatch, second step: insert the job row; the foreign key on video_id
\* rejects the row when the video is gone
DispatchInsert(d) ==
  /\ callers[d].pc = "inserting"
  /\ Cardinality(processing_jobs) < MaxJobs
  /\ processing_jobs' =
       IF \E v \in videos : v.id = callers[d].video
       THEN InsertJob(processing_jobs, VideoOf(videos, callers[d].video).church_id,
                      callers[d].video, callers[d].job_type, now)
       ELSE processing_jobs
  /\ callers' = [callers EXCEPT ![d] = IdleDispatch]
  /\ last' = [op |-> "dispatch.insert"]
  /\ UNCHANGED <<churches, oauth_tokens, videos, transcripts, now, history, env>>

\* a worker reports that it started the job
StartJob(id) ==
  /\ \E j \in processing_jobs : j.id = id /\ j.status = "pending"
  /\ processing_jobs' = {IF j.id = id THEN [j EXCEPT !.status = "running"] ELSE j :
                           j \in processing_jobs}
  /\ last' = [op |-> "job.start"]
  /\ UNCHANGED <<churches, oauth_tokens, videos, transcripts, now, history,
                 env, callers>>

\* a worker reports the end of the job
FinishJob(id, status) ==
  /\ \E j \in processing_jobs : j.id = id /\ j.status = "running"
  /\ processing_jobs' = {IF j.id = id
                         THEN [j EXCEPT !.status = status, !.completed_at = now]
                         ELSE j : j \in processing_jobs}
  /\ last' = [op |-> "job.finish"]
  /\ UNCHANGED <<churches, oauth_tokens, videos, transcripts, now, history,
                 env, callers>>

\* mutation: the sweep takes every row by its age since creation
Cleanup_AnyStatus(jobs, at) ==
  {j \in jobs : j.created_at < at - RetentionDays}

\* mutation: the sweep measures the age of a terminal row from its creation
Cleanup_ByCreatedAt(jobs, at) ==
  {j \in jobs : j.status \in TerminalStatuses /\ j.created_at < at - RetentionDays}

\* the rows the DELETE of cleanup_old_processing_jobs matches; a comparison
\* with NULL is not true
Deleted(jobs, at) ==
  {j \in jobs : /\ j.status \in {"completed", "failed"}
                /\ j.completed_at # NullDay
                /\ j.completed_at < at - RetentionDays}

CleanupOldProcessingJobs ==
  LET deleted == Deleted(processing_jobs, now)
  IN /\ processing_jobs' = processing_jobs \ deleted
     /\ last' = [op |-> "cleanup", deleted_count |-> Cardinality(deleted)]
     /\ UNCHANGED <<churches, oauth_tokens, videos, transcripts, now, history,
                    env, callers>>

\* SQL NULL in the job columns of a progress row
NullJob == [job_type |-> "null", status |-> "null"]

\* mutation: the lateral subquery takes the newest job of any status
CurrentJobs_AnyStatus(jobs, vid) ==
  LET of == {j \in jobs : j.video_id = vid}
  IN IF of = {} THEN {NullJob}
     ELSE {[job_type |-> j.job_type, status |-> j.status] :
             j \in {k \in of : \A o \in of : o.created_at <= k.created_at}}

\* LEFT JOIN LATERAL (... WHERE video_id = v.id AND status IN ('pending',
\* 'running') ORDER BY created_at DESC LIMIT 1): the rows the subquery can
\* yield (any of the newest when created_at ties, NULLs when there is none)
CurrentJobs(jobs, vid) ==
  LET active == {j \in jobs : j.video_id = vid /\ j.status \in {"pending", "running"}}
  IN IF active = {} THEN {NullJob}
     ELSE {[job_type |-> j.job_type, status |-> j.status] :
             j \in {k \in active : \A o \in active : o.created_at <= k.created_at}}

\* get_video_processing_progress(video_uuid): the result sets it can return
GetVideoProcessingProgress(vs, jobs, ts, video_uuid) ==
  IF ~ \E v \in vs : v.id = video_uuid
  THEN {{}}
  ELSE LET v == VideoOf(vs, video_uuid)
           t == SegmentsOf(ts, video_uuid)
       IN {{[video_id |-> v.id, video_status |-> v.status,
             current_job_type |-> j.job_type, current_job_status |-> j.status,
             total_segments |-> Cardinality(t),
             segments_with_embeddings |->
               Cardinality({r \in t : r.embedding # NoEmbedding})]} :
           j \in CurrentJobs(jobs, video_uuid)}

Progress(video_uuid) ==
  /\ last' = [op |-> "progress", video |-> video_uuid]
  /\ UNCHANGED <<churches, oauth_tokens, videos, transcripts, now, history,
                 processing_jobs, env, callers>>

Pass ==
  /\ \E d \in Instants : d > now
  /\ now' = CHOOSE d \in Instants : d > now /\ \A e \in Instants : e > now => d <= e
  /\ last' = [op |-> "tick"]
  /\ UNCHANGED <<churches, oauth_tokens, videos, transcripts, history,
                 processing_jobs, env, callers>>

(***************************************************************************)
(* Ownership: church_id and video_id of oauth_tokens, videos, transcripts   *)
(* and processing_jobs are foreign keys declared ON DELETE CASCADE.  A      *)
(* DELETE of a videos row or of a churches row removes the rows that        *)
(* reference it in the same statement.                                      *)
(***************************************************************************)
\* mutation: the foreign key on video_id takes no action on delete
OnDeleteVideo_NoAction(rows, vids) == rows

\* video_id ... REFERENCES videos(id) ON DELETE CASCADE
OnDeleteVideo(rows, vids) == {r \in rows : r.video_id \notin vids}

\* church_id ... REFERENCES churches(id) ON DELETE CASCADE
OnDeleteChurch(rows, c) == {r \in rows : r.church_id # c}

\* DELETE FROM videos WHERE id = vid
DeleteVideo(vid) ==
  /\ \E v \in videos : v.id = vid
  /\ videos' = {v \in videos : v.id # vid}
  /\ transcripts' = OnDeleteVideo(transcripts, {vid})
  /\ processing_jobs' = OnDeleteVideo(processing_jobs, {vid})
  /\ last' = [op |-> "delete.video", video |-> vid,
              segments |-> Cardinality(SegmentsOf(transcripts, vid)),
              jobs |-> Cardinality({j \in processing_jobs : j.video_id = vid})]
  /\ UNCHANGED <<churches, oauth_tokens, now, history, env, callers>>

\* DELETE FROM churches WHERE id = c
DeleteChurch(c) ==
  /\ \E ch \in churches : ch.id = c
  /\ LET vids == {v.id : v \in {w \in videos : w.church_id = c}}
     IN /\ churches' = {ch \in churches : ch.id # c}
        /\ oauth_tokens' = OnDeleteChurch(oauth_tokens, c)
        /\ videos' = OnDeleteChurch(videos, c)
        /\ transcripts' = OnDeleteChurch(OnDeleteVideo(transcripts, vids), c)
        /\ processing_jobs' = OnDeleteChurch(OnDeleteVideo(processing_jobs, vids), c)
        /\ last' = [op |-> "delete.church", church |-> c,
                    videos |-> Cardinality(vids)]
  /\ UNCHANGED <<now, history, env, callers>>

\* a connected tenant with one synced video that has two segments, one of
\* them embedded
InitJobs ==
  /\ env = EncryptionKey
  /\ churches = EnsureChurch({}, "c1", "ch1")
  /\ \E tokens \in ExchangeAnswers(0) :
       /\ tokens.access_token = <<1>> /\ tokens.expiry_date # NullTime
       /\ ~Falsy(tokens.refresh_token)
       /\ oauth_tokens = UpsertToken({}, CallbackRow("c1", tokens, 1, 1, 1))
  /\ \E emb \in {<<1, 0>>} :
       LET vs == UpsertVideo({}, "c1", "y1")
           ts == {[video_id |-> 1, segment_index |-> 0, start_time |-> 0,
                   church_id |-> "c1",
                   embedding |-> emb],
                  [video_id |-> 1, segment_index |-> 1, start_time |-> 1,
                   church_id |-> "c1",
                   embedding |-> NoEmbedding]}
       IN /\ transcripts = ts
          /\ videos = UpdateVideoStatusOnTranscriptChange(vs, ts, 1)
  /\ now = 0
  /\ last = NoRow
  /\ history = <<>>
  /\ processing_jobs = {}
  /\ callers = [d \in Dispatchers |-> IdleDispatch]

NextJobs ==
  \/ \E d \in Dispatchers, vid \in VideoIds, type \in JobTypes :
       DispatchCheck(d, vid, type)
  \/ \E d \in Dispatchers : DispatchInsert(d)
  \/ \E id \in JobIds : StartJob(id)
  \/ \E id \in JobIds, status \in TerminalStatuses : FinishJob(id, status)
  \/ CleanupOldProcessingJobs
  \/ \E vid \in VideoIds : DeleteVideo(vid)
  \/ \E c \in Churches : DeleteChurch(c)
  \/ Pass

SpecJobs == InitJobs /\ [][NextJobs]_vars

\* the job ledger as the callers of get_video_processing_progress see it:
\* jobs are dispatched one at a time, started and finished as the days pass
NextProgress ==
  \/ \E vid \in VideoIds, type \in JobTypes : DispatchCheck(1, vid, type)
  \/ DispatchInsert(1)
  \/ \E id \in JobIds : StartJob(id)
  \/ \E id \in JobIds, status \in TerminalStatuses : FinishJob(id, status)
  \/ \E video_uuid \in VideoIds : Progress(video_uuid)
  \/ Pass

SpecProgress == InitJobs /\ [][NextProgress]_vars

(***************************************************************************)
(* Embedding writes of one video made by concurrent transactions at the     *)
(* isolation level READ COMMITTED (the default).  A transaction updates     *)
(* the embedding of one segment; the AFTER UPDATE trigger then runs its     *)
(* statements in the same transaction: the count, which sees the committed  *)
(* rows and the transaction's own write, and the UPDATE of the videos row,  *)
(* which waits while another transaction holds an uncommitted update of     *)
(* that row and then writes the status chosen from the count.  The writes   *)
(* become visible to others at commit.                                      *)
(***************************************************************************)
Transactions == {1, 2}

NoTx == [pc |-> "idle", segment_index |-> -1, embedding |-> NoEmbedding, seen |-> {}]

\* the transcripts rows of the video as transaction tx sees them
Visible(ts, tx) ==
  {IF t.video_id = 1 /\ t.segment_index = tx.segment_index
   THEN [t EXCEPT !.embedding = tx.embedding]
   ELSE t : t \in ts}

\* UPDATE transcripts SET embedding = emb WHERE video_id = 1 AND segment_index
\* = idx; a row another transaction has written and not committed is locked
TxWrite(p, idx, emb) ==
  /\ callers[p].pc = "idle"
  /\ \E t \in transcripts :
       t.video_id = 1 /\ t.segment_index = idx /\ t.embedding = NoEmbedding
  /\ \A q \in Transactions :
       callers[q].pc # "idle" => callers[q].segment_index # idx
  /\ callers' = [callers EXCEPT ![p] =
       [pc |-> "written", segment_index |-> idx, embedding |-> emb, seen |-> {}]]
  /\ last' = [op |-> "tx.write", tx |-> p]
  /\ UNCHANGED <<churches, oauth_tokens, videos, transcripts, now, history,
                 processing_jobs, env>>

\* the trigger's SELECT COUNT(*), COUNT(embedding) ... WHERE video_id
TxCount(p) ==
  /\ callers[p].pc = "written"
  /\ callers' = [callers EXCEPT ![p] =
       [@ EXCEPT !.pc = "counted", !.seen = Visible(transcripts, callers[p])]]
  /\ last' = [op |-> "tx.count", tx |-> p]
  /\ UNCHANGED <<churches, oauth_tokens, videos, transcripts, now, history,
                 processing_jobs, env>>

\* the trigger's UPDATE videos: it takes the row lock
TxUpdateVideo(p) ==
  /\ callers[p].pc = "counted"
  /\ \A q \in Transactions : callers[q].pc # "updated"
  /\ callers' = [callers EXCEPT ![p] = [@ EXCEPT !.pc = "updated"]]
  /\ last' = [op |-> "tx.update", tx |-> p]
  /\ UNCHANGED <<churches, oauth_tokens, videos, transcripts, now, history,
                 processing_jobs, env>>

\* COMMIT: the segment write and the videos row written from the count
TxCommit(p) ==
  /\ callers[p].pc = "updated"
  /\ transcripts' = Visible(transcripts, callers[p])
  /\ videos' = UpdateVideoStatusOnTranscriptChange(videos, callers[p].seen, 1)
  /\ callers' = [callers EXCEPT ![p] = NoTx]
  /\ last' = [op |-> "tx.commit", tx |-> p]
  /\ UNCHANGED <<churches, oauth_tokens, now, history, processing_jobs, env>>

\* a video that is not failed, with its segments and no embedding yet
InitTx ==
  /\ env = EncryptionKey
  /\ churches = {[id |-> c, youtube_channel_id |-> ""] : c \in Churches}
  /\ oauth_tokens = {}
  /\ \E st \in {"completed", "pending"} :
       videos = {[id |-> 1, church_id |-> "c1", youtube_video_id |-> "y1",
                  status |-> st, error_message |-> "", has_embeddings |-> FALSE]}
  /\ transcripts = {[video_id |-> 1, segment_index |-> i, start_time |-> i,
                     church_id |-> "c1", embedding |-> NoEmbedding] :
                      i \in SegmentIndexes}
  /\ now = 0
  /\ last = NoRow
  /\ history = <<>>
  /\ processing_jobs = {}
  /\ callers = [p \in Transactions |-> NoTx]

NextTx ==
  \/ \E p \in Transactions, idx \in SegmentIndexes, emb \in Vectors :
       TxWrite(p, idx, emb)
  \/ \E p \in Transactions : TxCount(p)
  \/ \E p \in Transactions : TxUpdateVideo(p)
  \/ \E p \in Transactions : TxCommit(p)

SpecTx == InitTx /\ [][NextTx]_vars

(***************************************************************************)
(* The two expiry tests: isTokenExpired of the application, which receives  *)
(* the expires_at column through new Date(...).getTime() (undefined for     *)
(* NULL), and public.is_token_expired of the database, which receives the   *)
(* column itself.  Both run on one credential row at one reading `now` of   *)
(* the clock.                                                               *)
(***************************************************************************)
\* INTERVAL '5 minutes'
FiveMinutes == 5 * 60 * 1000

\* mutation: an expiry exactly at the end of the buffer counts as expired
is_token_expired_Inclusive(token_expires_at, at) ==
  token_expires_at = NullTimestamp \/ token_expires_at.ms <= at + FiveMinutes

\* token_expires_at IS NULL OR token_expires_at < (NOW() + INTERVAL '5 minutes')
is_token_expired(token_expires_at, at) ==
  token_expires_at = NullTimestamp \/ token_expires_at.ms < at + FiveMinutes

\* tokenData.expires_at ? new Date(tokenData.expires_at).getTime() : undefined
ExpiryDateOf(expires_at) ==
  IF expires_at # NullTimestamp THEN DateGetTime(expires_at) ELSE NullTime

\* the clock readings and, for each, the values of the expires_at column: NULL,
\* the epoch, and the instants around the end of the buffer
ClockReadings == {0, 1, HourMs}

ExpiresAtValues(at) ==
  {NullTimestamp, ToISOString(0)}
    \cup {ToISOString(at + FiveMinutes + d) : d \in (0 - MaxSkew)..MaxSkew}

CheckExpiry ==
  /\ last.op = "row"
  /\ last' = [op |-> "expired", expires_at |-> last.expires_at,
              app |-> IsTokenExpired(ExpiryDateOf(last.expires_at), BufferMinutes, now),
              db |-> is_token_expired(last.expires_at, now)]
  /\ UNCHANGED <<churches, oauth_tokens, videos, transcripts, now, history,
                 processing_jobs, env, callers>>

InitExpiry ==
  /\ env = EncryptionKey
  /\ churches = {}
  /\ oauth_tokens = {}
  /\ videos = {}
  /\ transcripts = {}
  /\ now \in ClockReadings
  /\ \E expires_at \in ExpiresAtValues(now) :
       last = [op |-> "row", expires_at |-> expires_at]
  /\ history = <<>>
  /\ processing_jobs = {}
  /\ callers = NoCalls

NextExpiry == CheckExpiry

SpecExpiry == InitExpiry /\ [][NextExpiry]_vars

(***************************************************************************)
(* get_tokens_needing_refresh(): the credential rows the background refresh *)
(* is to work on, read from oauth_tokens at one reading of the clock.  The  *)
(* function returns id, church_id, provider and expires_at; id is the       *)
(* primary key and the model's rows are identified by the unique pair       *)
(* (church_id, provider).                                                   *)
(***************************************************************************)
\* provider TEXT NOT NULL -- 'youtube', 'telegram', 'google'
Providers == {"youtube", "telegram", "google"}

\* the expires_at column of a row: NULL, long past, inside the buffer and at
\* its end
SweepExpiries(at) ==
  {NullTimestamp, ToISOString(0), ToISOString(at + FiveMinutes - 1),
   ToISOString(at + FiveMinutes)}

\* rows with a refresh secret take every expiry; rows without one take the
\* expiries the expiry test selects on its own, NULL and long past
SweepColumns(at) ==
  [refresh_token : {Encrypt(<<3>>, 1, 1)}, expires_at : SweepExpiries(at)]
    \cup [refresh_token : {NullColumn},
          expires_at : {NullTimestamp, ToISOString(0)}]

SweepRow(c, p, columns) ==
  [church_id |-> c, provider |-> p,
   access_token |-> Encrypt(<<1>>, 1, 1),
   refresh_token |-> columns.refresh_token,
   expires_at |-> columns.expires_at,
   scope |-> "youtube", token_type |-> "Bearer"]

\* mutation: NULLS LAST, the default of ASC
ExpiresAtAsc_NullsLast(a, b) ==
  b = NullTimestamp \/ (a # NullTimestamp /\ a.ms <= b.ms)

\* ORDER BY t.expires_at ASC NULLS FIRST: a may come before b
ExpiresAtAsc(a, b) ==
  a = NullTimestamp \/ (b # NullTimestamp /\ a.ms <= b.ms)

\* WHERE is_token_expired(t.expires_at) AND t.refresh_token IS NOT NULL
NeedingRefresh(rows, at) ==
  {t \in rows : is_token_expired(t.expires_at, at) /\ t.refresh_token # NullColumn}

\* the SELECT list
SweepColumnsOf(t) ==
  [church_id |-> t.church_id, provider |-> t.provider, expires_at |-> t.expires_at]

\* the answers of the query: the selected rows, each once, in an order the
\* ORDER BY allows (rows with equal expires_at come in any order)
get_tokens_needing_refresh(rows, at) ==
  LET selected == {SweepColumnsOf(t) : t \in NeedingRefresh(rows, at)}
      n == Cardinality(selected)
  IN {result \in [1..n -> selected] :
        /\ \A i, j \in 1..n : i # j => result[i] # result[j]
        /\ \A i, j \in 1..n :
             i < j => ExpiresAtAsc(result[i].expires_at, result[j].expires_at)}

GetTokensNeedingRefresh ==
  /\ last.op = "none"
  /\ \E result \in get_tokens_needing_refresh(oauth_tokens, now) :
       last' = [op |-> "needing.refresh", result |-> result]
  /\ UNCHANGED <<churches, oauth_tokens, videos, transcripts, now, history,
                 processing_jobs, env, callers>>

InitSweep ==
  /\ env = EncryptionKey
  /\ now = HourMs
  /\ churches = {[id |-> c, youtube_channel_id |-> ""] : c \in Churches}
  /\ \E table \in [Churches \X Providers -> SweepColumns(now) \cup {NoRow}] :
       oauth_tokens = {SweepRow(k[1], k[2], table[k]) :
                         k \in {x \in Churches \X Providers : table[x] # NoRow}}
  /\ videos = {}
  /\ transcripts = {}
  /\ last = NoRow
  /\ history = <<>>
  /\ processing_jobs = {}
  /\ callers = NoCalls

NextSweep == GetTokensNeedingRefresh

SpecSweep == InitSweep /\ [][NextSweep]_vars

(***************************************************************************)
(* listVideos(accessToken, channelId, maxResults): one invocation, page by  *)
(* page.  callers holds its locals and the platform's side of the listing:  *)
(*   pc         - "loop" at the test of the while, "returned", "thrown"     *)
(*   maxResults - the argument                                              *)
(*   videos     - videos.length                                             *)
(*   pageToken  - the page the next request asks for (0: undefined)         *)
(*   pages      - the length of the platform's page sequence: the page      *)
(*                numbered pages carries no nextPageToken                   *)
(* search.list returns at most maxResults items, its documented maximum,    *)
(* and videos.list returns at most one video for each id it is given; the   *)
(* loop skips the videos that lack id, snippet or contentDetails.  Either   *)
(* request may fail, and listVideos then throws.                            *)
(***************************************************************************)
MaxPages == 4
MaxRequested == 120

\* YouTube API max per request
PageMax == 50

MathMin(a, b) == IF a <= b THEN a ELSE b

\* mutation: every request asks for a full page
BatchSize_FullPage(maxResults, videos_length) == PageMax

\* const batchSize = Math.min(50, maxResults - videos.length)
BatchSize(maxResults, videos_length) ==
  MathMin(PageMax, maxResults - videos_length)

\* the default, one video, one more than a page, and several pages
MaxResultsInputs == {0, 1, PageMax, PageMax + 1, MaxRequested}

\* the sizes of a page of at most batchSize items, and of the details kept
\* from a page of n items
PageSizes(batchSize) == {0, 1, batchSize - 1, batchSize} \cap 0..batchSize

KeptSizes(n) == {0, n - 1, n} \cap 0..n

\* one pass of the loop body: search.list, videos.list, the pushes, the token
ListVideosPage(n, kept) ==
  /\ callers.pc = "loop"
  /\ callers.videos < callers.maxResults
  /\ \E batchSize \in {BatchSize(callers.maxResults, callers.videos)} :
       /\ n \in PageSizes(batchSize)
       /\ kept \in KeptSizes(n)
       /\ \E page \in {callers.pageToken + 1} :
            \E nextPageToken \in {IF page < callers.pages THEN page ELSE 0} :
              /\ callers' =
                   IF n = 0
                   THEN [callers EXCEPT !.pc = "returned"]
                   ELSE [callers EXCEPT
                           !.videos = @ + kept,
                           !.pageToken = nextPageToken,
                           !.pc = IF nextPageToken = 0 THEN "returned" ELSE "loop"]
              /\ last' = [op |-> "search.list", maxResults |-> batchSize,
                          remaining |-> callers.maxResults - callers.videos,
                          items |-> n,
                          nextPageToken |-> (nextPageToken # 0)]
  /\ UNCHANGED <<churches, oauth_tokens, videos, transcripts, now, history,
                 processing_jobs, env>>

\* the test of the while fails: return videos
ListVideosReturn ==
  /\ callers.pc = "loop"
  /\ callers.videos >= callers.maxResults
  /\ callers' = [callers EXCEPT !.pc = "returned"]
  /\ last' = [op |-> "list.return"]
  /\ UNCHANGED <<churches, oauth_tokens, videos, transcripts, now, history,
                 processing_jobs, env>>

\* a request fails: the catch block throws
ListVideosThrow ==
  /\ callers.pc = "loop"
  /\ callers.videos < callers.maxResults
  /\ callers' = [callers EXCEPT !.pc = "thrown"]
  /\ last' = [op |-> "list.throw"]
  /\ UNCHANGED <<churches, oauth_tokens, videos, transcripts, now, history,
                 processing_jobs, env>>

InitList ==
  /\ env = EncryptionKey
  /\ churches = {}
  /\ oauth_tokens = {}
  /\ videos = {}
  /\ transcripts = {}
  /\ now = 0
  /\ last = NoRow
  /\ history = <<>>
  /\ processing_jobs = {}
  /\ \E maxResults \in MaxResultsInputs, pages \in 1..MaxPages :
       callers = [pc |-> "loop", maxResults |-> maxResults, videos |-> 0,
                  pageToken |-> 0, pages |-> pages]

NextList ==
  \/ \E n \in 0..PageMax, kept \in 0..PageMax : ListVideosPage(n, kept)
  \/ ListVideosReturn
  \/ ListVideosThrow

\* the invocation is not suspended for ever: each awaited request answers
SpecList == InitList /\ [][NextList]_vars /\ WF_vars(NextList)

(***************************************************************************)
(* rebuild_embedding_index(): counts the rows with an embedding, computes   *)
(* the lists parameter and recreates idx_transcripts_embedding with it.     *)
(* The function reads no column but embedding IS NOT NULL, and the tables   *)
(* it is meant for are large: in this specification transcripts is the bag  *)
(* of the rows by that column (a row with an embedding, a row without).     *)
(***************************************************************************)
EmbeddedRow == [embedding |-> <<1, 0>>]
PendingRow == [embedding |-> NoEmbedding]

Rows(row, n) == IF n > 0 THEN [r \in {row} |-> n] ELSE EmptyBag

\* SELECT COUNT(*) FROM transcripts WHERE embedding IS NOT NULL
RowCount(ts) ==
  BagCardinality([r \in {x \in DOMAIN ts : x.embedding # NoEmbedding} |-> ts[r]])

\* FLOOR(SQRT(row_count) / 2): the greatest k with 2k <= sqrt(row_count)
FloorHalfSqrt(row_count) ==
  CHOOSE k \in 0..row_count :
    4 * k * k <= row_count /\ 4 * (k + 1) * (k + 1) > row_count

MinLists == 100

Greatest(a, b) == IF a >= b THEN a ELSE b

\* mutation: the square root is not halved
OptimalLists_Sqrt(row_count) ==
  Greatest(CHOOSE k \in 0..row_count :
             k * k <= row_count /\ (k + 1) * (k + 1) > row_count, MinLists)

\* optimal_lists := GREATEST(FLOOR(SQRT(row_count) / 2), 100)
OptimalLists(row_count) == Greatest(FloorHalfSqrt(row_count), MinLists)

RebuildEmbeddingIndex ==
  /\ last' = [op |-> "rebuild", row_count |-> RowCount(transcripts),
              optimal_lists |-> OptimalLists(RowCount(transcripts))]
  /\ UNCHANGED <<churches, oauth_tokens, videos, transcripts, now, history,
                 processing_jobs, env, callers>>

InitIndex ==
  /\ env = EncryptionKey
  /\ churches = EnsureChurch({}, "c1", "ch1")
  /\ oauth_tokens = {}
  /\ videos = UpsertVideo({}, "c1", "y1")
  /\ \E n \in 0..MaxCount, m \in {0, 1} :
       transcripts = Rows(EmbeddedRow, n) (+) Rows(PendingRow, m)
  /\ now = 0
  /\ last = NoRow
  /\ history = <<>>
  /\ processing_jobs = {}
  /\ callers = NoCalls

NextIndex == RebuildEmbeddingIndex

SpecIndex == InitIndex /\ [][NextIndex]_vars

(***************************************************************************)
(* Properties                                                               *)
(***************************************************************************)
RowById(id) == CHOOSE t \in transcripts : <<t.video_id, t.segment_index>> = id

Total(vid) == Cardinality(SegmentsOf(transcripts, vid))

WithEmbeddings(vid) ==
  Cardinality({t \in SegmentsOf(transcripts, vid) : t.embedding # NoEmbedding})

SegmentWrite == last.op \in {"insert", "embed"} /\ last.changed

\* every result search_transcripts can return in the current state
AllResults(q, c) ==
  UNION {SearchTranscripts(transcripts, q, c, k) : k \in MatchCounts}

\* C1: a video that is failed before a segment insert or an embedding change
\* on one of its segments is still failed after it (so failed survives any
\* sequence of such writes, the one that completes the embeddings included).
C1_FailedIsSticky ==
  (SegmentWrite /\ last.before = "failed")
    => VideoOf(videos, last.video).status = "failed"

\* C2: right after a segment insert or an embedding change on a video that was
\* not failed, the status is the one the transition table gives for the
\* video's segment counts: indexed when w = total, processing when
\* 0 < w < total, completed when w = 0.
C2_StatusFollowsTable ==
  (SegmentWrite /\ last.before # "failed")
    => LET total == Total(last.video)
           w == WithEmbeddings(last.video)
           st == VideoOf(videos, last.video).status
       IN /\ total > 0
          /\ (w = total) => st = "indexed"
          /\ (0 < w /\ w < total) => st = "processing"
          /\ (w = 0) => st = "completed"

C2_Witness ==
  /\ SegmentWrite /\ last.op = "embed" /\ last.before = "completed"
  /\ Total(last.video) = 2 /\ WithEmbeddings(last.video) = 1
  /\ VideoOf(videos, last.video).status = "processing"

\* C3: when the embeddings of the N segments of a non-failed video are written
\* one after another, in whatever order, the status is processing after each
\* of the first N-1 writes and indexed after the N-th.
C3_OrderIndependent ==
  \A i \in 1..Len(history) :
    history[i].status = IF i < Total(1) THEN "processing" ELSE "indexed"

C3_Witness ==
  /\ Total(1) = OrderSegments
  /\ Len(history) = OrderSegments
  /\ history[1].segment_index > history[2].segment_index

\* C4: no result a search for a tenant can return holds a segment of another
\* tenant.
C4_TenantIsolation ==
  last.op = "search" =>
    \A r \in AllResults(last.query, last.church) :
      \A i \in DOMAIN r : RowById(r[i].id).church_id = last.church

\* a search of tenant last.church has returned rows although a segment of
\* another tenant is strictly nearer to the query than all of its own
C4_Witness ==
  /\ last.op = "search"
  /\ Matching(transcripts, last.church) # {}
  /\ \E t \in transcripts :
       /\ t.church_id # last.church /\ t.embedding # NoEmbedding
       /\ \A m \in Matching(transcripts, last.church) :
            CosineDistance(t.embedding, last.query)
              < CosineDistance(m.embedding, last.query)
  /\ \E r \in AllResults(last.query, last.church) : Len(r) > 0

\* C5: a search with limit k returns at most k rows, in order of
\* non-increasing similarity; with the limit omitted, at most 10 rows.
C5_LimitAndOrder ==
  last.op = "search" =>
    \A k \in MatchCounts :
      \A r \in SearchTranscripts(transcripts, last.query, last.church, k) :
        /\ Len(r) <= k
        /\ \A i, j \in DOMAIN r : i < j => r[i].similarity >= r[j].similarity

\* the limit cuts the result: more rows match than the limit allows, and the
\* rows differ in similarity
C5_Witness ==
  /\ last.op = "search"
  /\ Cardinality(Matching(transcripts, last.church)) = 2
  /\ \E r \in SearchTranscripts(transcripts, last.query, last.church, 1) :
       Len(r) = 1
  /\ \E r \in SearchTranscripts(transcripts, last.query, last.church, 2) :
       Len(r) = 2 /\ r[1].similarity > r[2].similarity

RowBefore == CHOOSE t \in TokenRows(last.before, last.church, "youtube") : TRUE

RowNow == CHOOSE t \in TokenRows(oauth_tokens, last.church, "youtube") : TRUE

BufferMs == BufferMinutes * 60 * 1000

ReconnectRequired(e) == e \in {ErrNoRefreshToken, ErrRefreshFailed}

\* C7: at most one credential row per (tenant, provider) in every reachable
\* state; a store that succeeds leaves exactly one row for the pair, holding
\* the stored values, also when a row existed before.
C7_OneRowPerPair ==
  /\ \A t1, t2 \in oauth_tokens :
       (t1.church_id = t2.church_id /\ t1.provider = t2.provider) => t1 = t2
  /\ (last.op = "callback" /\ last.outcome = "ok") =>
       /\ Cardinality(TokenRows(oauth_tokens, last.church, "youtube")) = 1
       /\ Decrypt(RowNow.access_token).text = last.tokens.access_token

\* a store overwrites the row of an earlier store with another access secret
C7_Witness ==
  /\ last.op = "callback" /\ last.outcome = "ok" /\ last.existed
  /\ Cardinality(oauth_tokens) = 2

\* C8: whenever get returns successfully, the expiry returned with the access
\* secret is set and is at least the 5-minute buffer after the time of the
\* call.
C8_ReturnedExpiryOutsideBuffer ==
  (last.op = "get" /\ last.error = "") =>
    /\ last.tokens.expiresAt # NullTimestamp
    /\ DateGetTime(last.tokens.expiresAt) >= now + BufferMs

\* C9: when the outbound refresh call fails, get fails with the
\* reconnect-required error, returns no secret, and the credential rows are
\* exactly what they were before the call.
C9_FailedRefreshLeavesRow ==
  (last.op = "get" /\ last.refreshCalls = 1 /\ ~last.answer.ok) =>
    /\ ReconnectRequired(last.error)
    /\ last.tokens = NoTokens
    /\ oauth_tokens = last.before
    /\ TokenRows(oauth_tokens, last.church, "youtube") # {}
    /\ Decrypt(RowNow.access_token) = Decrypt(RowBefore.access_token)
    /\ Decrypt(RowNow.refresh_token).ok

C9_Witness ==
  /\ last.op = "get" /\ last.refreshCalls = 1 /\ ~last.answer.ok
  /\ RowBefore.expires_at # NullTimestamp
  /\ Cardinality(oauth_tokens) = 2

\* C10: a get on a stored credential that has a refresh secret and is expired
\* makes exactly one refresh call; when the call and the save succeed it
\* returns the provider's new secret with its expiry and the row holds
\* exactly that; a second get made while that expiry is outside the buffer
\* makes no refresh call and returns the same secret.
C10_RefreshOncePersisted ==
  /\ (/\ last.op = "get"
      /\ last.error \notin {ErrNotConnected, ErrDecrypt}
      /\ ~FalsyColumn(RowBefore.refresh_token)
      /\ (RowBefore.expires_at = NullTimestamp
            \/ DateGetTime(RowBefore.expires_at) < now + BufferMs))
       => last.refreshCalls = 1
  /\ (last.op = "get" /\ last.refreshCalls = 1 /\ last.error = "") =>
       /\ last.tokens.accessToken = last.answer.access_token
       /\ Decrypt(RowNow.access_token).text = last.tokens.accessToken
       /\ RowNow.expires_at = last.tokens.expiresAt
       /\ RowNow.refresh_token = RowBefore.refresh_token
       /\ last.answer.expiry_date # NullTime =>
            DateGetTime(RowNow.expires_at) = last.answer.expiry_date
       /\ \A at \in {now, now + 60000, now + TickMs} :
            (/\ RowNow.expires_at # NullTimestamp
             /\ DateGetTime(RowNow.expires_at) >= at + BufferMs) =>
              \A answer \in RefreshAnswers(at), updateFail \in BOOLEAN :
                LET second == GetYouTubeTokensResult(oauth_tokens, last.church,
                                FALSE, answer, updateFail, 1, 1, at)
                IN /\ second.error = ""
                   /\ second.refreshCalls = 0
                   /\ second.tokens.accessToken = last.tokens.accessToken
                   /\ second.rows = oauth_tokens

\* a get found an expiry in the past, refreshed, and the new secret stays
\* valid for a later get
C10_Witness ==
  /\ last.op = "get" /\ last.refreshCalls = 1 /\ last.error = ""
  /\ RowBefore.expires_at # NullTimestamp
  /\ DateGetTime(RowBefore.expires_at) < now
  /\ Decrypt(RowBefore.access_token).text # last.tokens.accessToken
  /\ DateGetTime(RowNow.expires_at) >= now + 60000 + BufferMs

\* the stored credential of the tenant of the last get, as get reads it
StoredExpired ==
  \/ RowBefore.expires_at = NullTimestamp
  \/ DateGetTime(RowBefore.expires_at) - BufferMs < now

\* C11: get fails with the not-connected error exactly when no credential row
\* exists for (tenant, youtube) - a failed read of the store is not reported
\* as not-connected - and with the reconnect-required error when the row
\* exists, is expired or has no expiry and has no refresh secret; in both
\* cases no refresh call is made and the store is unchanged.
C11_NotConnectedIffNoRow ==
  last.op = "get" =>
    /\ (last.error = ErrNotConnected)
         <=> (TokenRows(last.before, last.church, "youtube") = {})
    /\ (/\ TokenRows(last.before, last.church, "youtube") # {}
        /\ Decrypt(RowBefore.access_token).ok
        /\ FalsyColumn(RowBefore.refresh_token)
        /\ StoredExpired)
         => last.error = ErrNoRefreshToken
    /\ last.error \in {ErrNotConnected, ErrNoRefreshToken} =>
         /\ last.refreshCalls = 0
         /\ oauth_tokens = last.before
         /\ last.tokens = NoTokens

\* the rows of the other tenants and providers
OtherRows(rows, c) == rows \ TokenRows(rows, c, "youtube")

\* C12: a get that refreshes changes only the access secret and the expiry
\* of the one row of (tenant, youtube): the refresh secret, scope and secret
\* type of that row and every row of every other tenant or provider are what
\* they were before the call.
C12_RefreshFrame ==
  (last.op = "get" /\ last.refreshCalls = 1) =>
    /\ OtherRows(oauth_tokens, last.church) = OtherRows(last.before, last.church)
    /\ Cardinality(TokenRows(oauth_tokens, last.church, "youtube")) = 1
    /\ RowNow.refresh_token = RowBefore.refresh_token
    /\ RowNow.scope = RowBefore.scope
    /\ RowNow.token_type = RowBefore.token_type
    /\ last.error # "" => RowNow = RowBefore

\* a refresh replaced the access secret of one tenant while another tenant
\* holds a credential
C12_Witness ==
  /\ last.op = "get" /\ last.refreshCalls = 1 /\ last.error = ""
  /\ RowNow.access_token # RowBefore.access_token
  /\ OtherRows(oauth_tokens, last.church) # {}

\* the fields of a serialized secret
Fields(encryptedText) == Split(encryptedText)

\* C13: decrypt(encrypt(p)) = p for every plaintext p, the empty string and
\* strings containing ':' included; the serialized form has exactly four
\* ':'-separated fields and no field contains the delimiter.
C13_RoundTrip ==
  /\ last.op \in {"encrypt", "decrypt"} =>
       /\ Len(Fields(last.encrypted)) = 4
       /\ \A n \in 1..4 : \A i \in DOMAIN Fields(last.encrypted)[n] :
            Fields(last.encrypted)[n][i] # Colon
  /\ last.op = "decrypt" =>
       /\ last.decrypted.ok
       /\ last.decrypted.text = last.text

\* the stored row of the tenant of the last get holds a secret that is no
\* encryption under the current process secret
EncryptionsOf(texts) ==
  {Encrypt(t, salt, iv) : t \in texts, salt \in Salts, iv \in Ivs}

StoredUndecryptable ==
  \/ RowBefore.access_token \notin EncryptionsOf(AccessTokens)
  \/ /\ ~FalsyColumn(RowBefore.refresh_token)
     /\ RowBefore.refresh_token \notin EncryptionsOf(RefreshTokens)

\* C14: when get has read the row of the tenant and its access or refresh
\* secret does not decrypt, get fails with the decryption error, which is not
\* the not-connected error, returns no secret, makes no refresh call and
\* leaves the store unchanged.
C14_DecryptionFailsClosed ==
  (/\ last.op = "get" /\ ~last.fetchError
   /\ TokenRows(last.before, last.church, "youtube") # {}
   /\ StoredUndecryptable) =>
    /\ last.error = ErrDecrypt
    /\ last.error # ErrNotConnected
    /\ ~ReconnectRequired(last.error)
    /\ last.tokens = NoTokens
    /\ last.refreshCalls = 0
    /\ oauth_tokens = last.before

\* a get reads a row written under another process secret
C14_Witness ==
  /\ last.op = "get" /\ ~last.fetchError
  /\ TokenRows(last.before, last.church, "youtube") # {}
  /\ StoredUndecryptable
  /\ env # EncryptionKey

\* C15: a get whose refresh fails reports the reconnect-required error only
\* when the provider rejected the refresh secret for good; when the call
\* failed for a transient reason or the refreshed secret could not be saved
\* it reports another error; in every case the stored rows are intact.
C15_ReconnectOnlyWhenPermanent ==
  (last.op = "get" /\ last.refreshCalls = 1 /\ last.error # "") =>
    /\ oauth_tokens = last.before
    /\ ReconnectRequired(last.error)
         <=> (~last.answer.ok /\ last.answer.failure = "invalid_grant")

\* callers of the concurrent get that made a refresh call and returned
Refreshed(p) ==
  callers[p].pc = "done" /\ callers[p].refreshCalls = 1 /\ callers[p].error = ""

\* the (access secret, expiry) pair a caller's refresh call produced
PairOf(p) ==
  <<callers[p].answer.access_token,
    IF callers[p].answer.expiry_date # NullTime
    THEN ToISOString(callers[p].answer.expiry_date) ELSE NullTimestamp>>

StoredRow == CHOOSE t \in TokenRows(oauth_tokens, "c1", "youtube") : TRUE

StoredPair == <<Decrypt(StoredRow.access_token).text, StoredRow.expires_at>>

\* C16: two gets of one tenant that run concurrently on an expired
\* credential may both make a refresh call; every caller that refreshed
\* returns the secret of its own call, once all have finished the stored
\* (access secret, expiry) pair is the pair of one of the refresh calls, and
\* the stored refresh secret is the one the callers read.
C16_LastWriteWins ==
  /\ Cardinality(TokenRows(oauth_tokens, "c1", "youtube")) = 1
  /\ \A p \in Callers :
       /\ Refreshed(p) => <<callers[p].tokens.accessToken,
                            callers[p].tokens.expiresAt>> = PairOf(p)
       /\ callers[p].pc \in {"refreshing", "updating"} \/ Refreshed(p) =>
            /\ Decrypt(StoredRow.refresh_token).ok
            /\ Decrypt(StoredRow.refresh_token).text = callers[p].refreshToken
            /\ callers[p].tokens.refreshToken \in {NullText, callers[p].refreshToken}
  /\ ((\A p \in Callers : callers[p].pc = "done") /\ (\E p \in Callers : Refreshed(p)))
       => \E p \in Callers : Refreshed(p) /\ StoredPair = PairOf(p)

\* both callers refreshed and have finished; their calls returned different
\* secrets and different expiries, each outside the buffer, so that the second
\* caller read the row before the first one wrote it
C16_Witness ==
  /\ \A p \in Callers :
       /\ Refreshed(p)
       /\ ~IsTokenExpired(callers[p].answer.expiry_date, BufferMinutes, now)
  /\ PairOf(1)[1] # PairOf(2)[1]
  /\ PairOf(1)[2] # PairOf(2)[2]
  /\ StoredPair \in {PairOf(1), PairOf(2)}

\* C17: for every video and every job type at most one job row is pending or
\* running, also while two dispatches run concurrently.
C17_OneActiveJobPerType ==
  \A vid \in VideoIds, type \in JobTypes :
    Cardinality(ActiveJobs(processing_jobs, vid, type)) <= 1

JobById(jobs, id) == CHOOSE j \in jobs : j.id = id
IdsOf(jobs) == {j.id : j \in jobs}

\* the status changes a job row may make in one step
JobTransitions ==
  {<<"pending", "running">>, <<"running", "completed">>, <<"running", "failed">>}

\* C18: a job row is created in status pending; its status only moves from
\* pending to running and from running to completed or failed; a completed or
\* failed row never changes status again; a row leaves the table only in a
\* step of the retention sweep.
C18_JobLifecycle ==
  [][/\ \A id \in IdsOf(processing_jobs') \ IdsOf(processing_jobs) :
          JobById(processing_jobs', id).status = "pending"
     /\ \A id \in IdsOf(processing_jobs) \cap IdsOf(processing_jobs') :
          LET old == JobById(processing_jobs, id).status
              new == JobById(processing_jobs', id).status
          IN old = new \/ <<old, new>> \in JobTransitions
     /\ IdsOf(processing_jobs) \ IdsOf(processing_jobs') # {} =>
          last'.op = "cleanup"]_vars

\* C18, amended: as above, except that a row leaves the table only in a step
\* of the retention sweep or, by the cascade of its foreign keys, in the step
\* that deletes its video or its tenant.
C18_JobLifecycleOrCascade ==
  [][/\ \A id \in IdsOf(processing_jobs') \ IdsOf(processing_jobs) :
          JobById(processing_jobs', id).status = "pending"
     /\ \A id \in IdsOf(processing_jobs) \cap IdsOf(processing_jobs') :
          LET old == JobById(processing_jobs, id).status
              new == JobById(processing_jobs', id).status
          IN old = new \/ <<old, new>> \in JobTransitions
     /\ \A id \in IdsOf(processing_jobs) \ IdsOf(processing_jobs') :
          \/ last'.op = "cleanup"
          \/ /\ last'.op = "delete.video"
             /\ JobById(processing_jobs, id).video_id = last'.video
          \/ /\ last'.op = "delete.church"
             /\ JobById(processing_jobs, id).church_id = last'.church]_vars

\* a failed job and the new pending job of its retry are in the table
C18_Witness ==
  \E j, k \in processing_jobs :
    /\ j.status = "failed" /\ k.status = "pending"
    /\ j.video_id = k.video_id /\ j.job_type = k.job_type
    /\ k.created_at >= j.completed_at

\* C19: a step of cleanup_old_processing_jobs leaves every video row, every
\* transcript row, every credential row and every pending or running job row
\* as it was, whatever their age.
C19_CleanupFrame ==
  [][last'.op = "cleanup" =>
       /\ videos' = videos
       /\ transcripts' = transcripts
       /\ oauth_tokens' = oauth_tokens
       /\ churches' = churches
       /\ \A j \in processing_jobs :
            j.status \in ActiveStatuses => j \in processing_jobs']_vars

\* the sweep has deleted a row while an active job older than the retention
\* window, a video, a segment and a credential are in the store
C19_Witness ==
  /\ last.op = "cleanup" /\ last.deleted_count > 0
  /\ \E j \in processing_jobs :
       j.status \in ActiveStatuses /\ j.created_at < now - RetentionDays
  /\ videos # {} /\ transcripts # {} /\ oauth_tokens # {}

\* the job rows that are terminal and ended more than the retention window
\* before day `at`
Expired(jobs, at) ==
  {j \in jobs : /\ j.status \in TerminalStatuses
                /\ j.completed_at # NullDay
                /\ at - j.completed_at > RetentionDays}

\* C20: cleanup_old_processing_jobs deletes exactly the completed and failed
\* rows that ended more than 30 days before now and returns their number;
\* afterwards no such row remains and a second run would delete nothing.
C20_CleanupExact ==
  [][last'.op = "cleanup" =>
       /\ processing_jobs' = processing_jobs \ Expired(processing_jobs, now)
       /\ last'.deleted_count = Cardinality(Expired(processing_jobs, now))
       /\ Expired(processing_jobs', now') = {}
       /\ Deleted(processing_jobs', now') = {}]_vars

\* the sweep deleted a row and kept a terminal row that ended exactly 30 days
\* ago
C20_Witness ==
  /\ last.op = "cleanup" /\ last.deleted_count > 0
  /\ \E j \in processing_jobs :
       j.status \in TerminalStatuses /\ now - j.completed_at = RetentionDays

\* the active jobs of a video that no active job of the video is newer than
NewestActive(vid) ==
  {j \in processing_jobs :
     /\ j.video_id = vid /\ j.status \in ActiveStatuses
     /\ ~ \E k \in processing_jobs :
            /\ k.video_id = vid /\ k.status \in ActiveStatuses
            /\ k.created_at > j.created_at}

OneRowPerKey(vs) ==
  \A v \in vs, w \in vs :
    (v.church_id = w.church_id /\ v.youtube_video_id = w.youtube_video_id)
      => v = w

C22_OneRowPerVideo ==
  [][/\ OneRowPerKey(videos')
     /\ last'.op = "sync" =>
          /\ \A v \in videos : \E w \in videos' :
                /\ w.id = v.id
                /\ w.church_id = v.church_id
                /\ w.youtube_video_id = v.youtube_video_id
          /\ transcripts' = transcripts
          /\ processing_jobs' = processing_jobs]_vars

\* a sync has just run for a tenant whose video already carries a segment,
\* next to the video of another tenant
C22_Witness ==
  /\ last.op = "sync"
  /\ Cardinality(videos) = 2
  /\ \E v \in videos : /\ v.church_id = last.church
                        /\ SegmentsOf(transcripts, v.id) # {}

(***************************************************************************)
(* C23: a sync of a video that is already stored leaves its status, its     *)
(* error detail and its has-embeddings flag as they were.                   *)
(***************************************************************************)
C23_ResyncKeepsStatus ==
  [][last'.op = "sync" =>
       \A v \in videos : \A w \in videos' :
         w.id = v.id => /\ w.status = v.status
                        /\ w.error_message = v.error_message
                        /\ w.has_embeddings = v.has_embeddings]_vars

(***************************************************************************)
(* C24: in every state each transcript row and each job row references a    *)
(* video that exists, and each credential, video, transcript and job row    *)
(* references a tenant that exists; right after the deletion of a video no  *)
(* transcript or job row carries its id, and right after the deletion of a  *)
(* tenant no credential, video, transcript or job row carries its id.       *)
(***************************************************************************)
ChurchIds == {ch.id : ch \in churches}

C24_OwnershipCascade ==
  /\ \A r \in transcripts \cup processing_jobs :
       /\ \E v \in videos : v.id = r.video_id
       /\ r.church_id \in ChurchIds
  /\ \A r \in videos \cup oauth_tokens : r.church_id \in ChurchIds
  /\ last.op = "delete.video" =>
       \A r \in transcripts \cup processing_jobs : r.video_id # last.video
  /\ last.op = "delete.church" =>
       \A r \in oauth_tokens \cup videos \cup transcripts \cup processing_jobs :
         r.church_id # last.church

\* a video that had segments and jobs has just been deleted
C24_Witness ==
  /\ last.op = "delete.video"
  /\ last.segments > 0
  /\ last.jobs > 0

(***************************************************************************)
(* C25: within a video no two segments share a segment index, and a segment *)
(* with a smaller index never starts later than one with a larger index.    *)
(***************************************************************************)
C25_SegmentsOrdered ==
  \A t \in transcripts, u \in transcripts :
    t.video_id = u.video_id =>
      /\ t.segment_index = u.segment_index => t = u
      /\ t.segment_index < u.segment_index => t.start_time <= u.start_time

(***************************************************************************)
(* C26: every segment a search returns has a non-null embedding, and a      *)
(* search for a tenant that has no embedded segment (its segments have no   *)
(* embedding yet, or no churches row carries the id) returns the empty      *)
(* result, whatever the limit.                                              *)
(***************************************************************************)
Embedded(c) == {t \in transcripts : t.church_id = c /\ t.embedding # NoEmbedding}

C26_OnlyEmbeddedElseEmpty ==
  last.op = "search" =>
    /\ \A r \in AllResults(last.query, last.church) :
         \A i \in DOMAIN r : RowById(r[i].id).embedding # NoEmbedding
    /\ Embedded(last.church) = {} =>
         \A k \in MatchCounts :
           SearchTranscripts(transcripts, last.query, last.church, k) = {<<>>}

\* a search of a tenant whose only segment has no embedding, while a segment
\* of another tenant is embedded
C26_Witness ==
  /\ last.op = "search"
  /\ \E t \in transcripts : t.church_id = last.church
  /\ Embedded(last.church) = {}
  /\ \E t \in transcripts : t.church_id # last.church /\ t.embedding # NoEmbedding

(***************************************************************************)
(* C27: the lists parameter a rebuild chooses for n rows with an embedding  *)
(* is never below 100, is 100 for every n up to 40803, is the greatest k    *)
(* with 2k <= sqrt(n) above that, and does not decrease when n grows by     *)
(* one; the rebuild leaves every table as it was.                           *)
(***************************************************************************)
\* the last row count whose halved square root is below 101
LastAt100 == 4 * 101 * 101 - 1

C27_ClusterCount ==
  [][last'.op = "rebuild" =>
       LET n == last'.row_count
           lists == last'.optimal_lists
       IN /\ n = RowCount(transcripts)
          /\ lists >= 100
          /\ n <= LastAt100 => lists = 100
          /\ n > LastAt100 => (2 * lists) * (2 * lists) <= n
                                /\ (2 * lists + 2) * (2 * lists + 2) > n
          /\ lists <= OptimalLists(n + 1)
          /\ UNCHANGED <<churches, oauth_tokens, videos, transcripts,
                         processing_jobs>>]_vars

\* the index has been rebuilt for the first table size that takes more than
\* 100 lists
C27_Witness ==
  /\ last.op = "rebuild"
  /\ last.row_count = LastAt100 + 1
  /\ last.optimal_lists = 101

(***************************************************************************)
(* C28: while the deployment has no encryption secret, no callback and no   *)
(* get is started and then failed for want of it, and a callback does not   *)
(* change the tenant row before it finds the secret missing.                *)
(***************************************************************************)
C28_MissingSecretFailsNoRequest ==
  [][env = NoEncryptionKey =>
       /\ last'.op = "callback" =>
            last'.outcome # "encrypt" /\ churches' = churches
       /\ last'.op = "get" => last'.error # ErrDecrypt]_vars

(***************************************************************************)
(* C29: on every expires_at value and every clock reading the application   *)
(* test and the database function give the same answer: expired exactly     *)
(* when the column is NULL or strictly earlier than now plus 5 minutes.     *)
(***************************************************************************)
C29_ExpiryTestsAgree ==
  last.op = "expired" =>
    /\ last.app = last.db
    /\ last.app <=> \/ last.expires_at = NullTimestamp
                    \/ last.expires_at.ms < now + 5 * 60 * 1000

\* an expiry exactly 5 minutes ahead: not expired under either test
C29_Witness ==
  /\ last.op = "expired"
  /\ last.expires_at # NullTimestamp
  /\ last.expires_at.ms = now + 5 * 60 * 1000
  /\ ~last.app
  /\ ~last.db

(***************************************************************************)
(* C30: when the embeddings of the segments of a video that is not failed   *)
(* are written by concurrent transactions, then once every transaction has  *)
(* committed and every segment has an embedding the status is indexed.      *)
(***************************************************************************)
C30_ConcurrentWritesIndex ==
  (/\ \A p \in Transactions : callers[p].pc = "idle"
   /\ last.op = "tx.commit"
   /\ WithEmbeddings(1) = Total(1))
    => VideoOf(videos, 1).status = "indexed"

(***************************************************************************)
(* C31: when gets with a refresh in flight interleave with a reconnection   *)
(* of the tenant, the stored access secret belongs to the grant of the      *)
(* stored refresh secret: a refresh made with the superseded refresh secret *)
(* never overwrites the access secret the callback stored.                  *)
(***************************************************************************)
C31_OneGrantPerRow ==
  \A t \in TokenRows(oauth_tokens, "c1", "youtube") :
    (~FalsyColumn(t.refresh_token)) =>
      Decrypt(t.access_token).text \in AccessOf(Decrypt(t.refresh_token).text)

(***************************************************************************)
(* C32: in every state each video that is not failed and has a segment has  *)
(* the status of the transition table for its segment counts: indexed when  *)
(* all have an embedding, processing when some have, completed when none.   *)
(***************************************************************************)
TableStatus(vid) ==
  IF WithEmbeddings(vid) = Total(vid) THEN "indexed"
  ELSE IF WithEmbeddings(vid) > 0 THEN "processing"
  ELSE "completed"

C32_StatusIsDerived ==
  \A v \in videos :
    (v.status # "failed" /\ Total(v.id) > 0) => v.status = TableStatus(v.id)

(***************************************************************************)
(* C33: in every state the has_embeddings flag of a video is true exactly   *)
(* when the video has a segment and each of its segments has an embedding,  *)
(* for failed and for re-synced videos as for the others.                   *)
(***************************************************************************)
C33_FlagMatchesSegments ==
  \A v \in videos :
    v.has_embeddings <=> (Total(v.id) > 0 /\ WithEmbeddings(v.id) = Total(v.id))

(***************************************************************************)
(* C34: a segment insert or embedding write on video V, with the            *)
(* recomputation it fires, changes of the videos table only V's status and  *)
(* has_embeddings flag; a status it sets is processing, completed or        *)
(* indexed, never pending or failed; V's error detail, every other video,   *)
(* every other segment and every job stay as they were.                     *)
(***************************************************************************)
C34_RecomputationFrame ==
  [][last'.op \in {"insert", "embed"} =>
       /\ Cardinality(videos') = Cardinality(videos)
       /\ \A v \in videos : \E w \in videos' :
            /\ w.id = v.id
            /\ v.id # last'.video => w = v
            /\ w = [v EXCEPT !.status = w.status, !.has_embeddings = w.has_embeddings]
            /\ w.status # v.status =>
                 w.status \in {"processing", "completed", "indexed"}
       /\ \A t \in transcripts :
            (t.video_id # last'.video \/ last'.op = "insert") => t \in transcripts'
       /\ Cardinality(transcripts' \ transcripts) <= 1
       /\ processing_jobs' = processing_jobs]_vars

\* an embedding write has just changed the status of its video while the
\* video of the other tenant, which has a segment too, is in another status
C34_Witness ==
  /\ last.op = "embed"
  /\ last.changed
  /\ VideoOf(videos, last.video).status # last.before
  /\ \E v \in videos :
       /\ v.id # last.video
       /\ Total(v.id) > 0
       /\ v.status # VideoOf(videos, last.video).status

(***************************************************************************)
(* C35: a disconnect that returns without error leaves no credential row of *)
(* the tenant and changes no row of another tenant; from then on the row    *)
(* stays absent in every step but a store of the OAuth callback, the update *)
(* of a get whose refresh was in flight included; and a get that reads the  *)
(* store while the row is absent fails with the not-connected error.        *)
(***************************************************************************)
Connected(rows) == TokenRows(rows, "c1", "youtube") # {}

C35_DisconnectIsFinal ==
  [][/\ (last'.op = "disconnect" /\ last'.error = "") =>
          /\ ~Connected(oauth_tokens')
          /\ {t \in oauth_tokens' : t.church_id # "c1"}
               = {t \in oauth_tokens : t.church_id # "c1"}
     /\ (~Connected(oauth_tokens) /\ last'.op # "callback") =>
          ~Connected(oauth_tokens')
     /\ (~Connected(oauth_tokens) /\ last'.op = "get.fetch") =>
          /\ callers'[last'.caller].pc = "done"
          /\ callers'[last'.caller].error = ErrNotConnected]_vars

\* a get that read the row before the disconnect has finished its refresh
\* after it: it returned the refreshed secret and the row is still absent,
\* the row of the other tenant is there
C35_Witness ==
  /\ last.op = "get.update"
  /\ Refreshed(last.caller)
  /\ ~Connected(oauth_tokens)
  /\ TokenRows(oauth_tokens, "c2", "youtube") # {}

(***************************************************************************)
(* C36: in every state in which an OAuth callback or a disconnect has just  *)
(* finished, with or without an error, each tenant row carries a channel id *)
(* exactly when the tenant has a credential row for youtube.                *)
(***************************************************************************)
HasChannel(c) == \E ch \in churches : ch.id = c /\ ch.youtube_channel_id # ""

C36_ConnectionStateConsistent ==
  last.op \in {"callback", "disconnect"} =>
    \A c \in Churches :
      HasChannel(c) <=> TokenRows(oauth_tokens, c, "youtube") # {}

(***************************************************************************)
(* C37: a callback whose state parameter is missing, differs from the state *)
(* stored for the signed-in user, or whose stored state has expired, ends   *)
(* before the code exchange and changes no tenant or credential row.        *)
(***************************************************************************)
StateAccepted(request, at) ==
  /\ request.state # ""
  /\ request.state = request.oauth_state
  /\ ~(request.oauth_state_expires # NullTime /\ request.oauth_state_expires < at)

C37_StateGuardsExchange ==
  [][(last'.op = "callback" /\ last'.request.read
        /\ ~StateAccepted(last'.request, now))
       => /\ last'.outcome \in {"missing", "state"}
          /\ UNCHANGED <<churches, oauth_tokens>>]_vars

(***************************************************************************)
(* C38: get_tokens_needing_refresh returns exactly the credential rows that *)
(* have a refresh secret and whose expiry is unset or earlier than now plus *)
(* five minutes, each once, rows with an unset expiry first and the others  *)
(* by ascending expiry.                                                     *)
(***************************************************************************)
DueRows ==
  {t \in oauth_tokens :
     /\ t.refresh_token # NullColumn
     /\ (t.expires_at = NullTimestamp \/ t.expires_at.ms < now + 5 * 60 * 1000)}

KeyOf(t) == <<t.church_id, t.provider>>

C38_SweepSelection ==
  last.op = "needing.refresh" =>
    LET result == last.result
        n == Len(result)
    IN /\ {KeyOf(result[i]) : i \in 1..n} = {KeyOf(t) : t \in DueRows}
       /\ n = Cardinality(DueRows)
       /\ \A i \in 1..n : \E t \in DueRows :
            KeyOf(t) = KeyOf(result[i]) /\ t.expires_at = result[i].expires_at
       /\ \A i, j \in 1..n :
            i < j =>
              /\ result[j].expires_at = NullTimestamp
                   => result[i].expires_at = NullTimestamp
              /\ (result[i].expires_at # NullTimestamp
                    /\ result[j].expires_at # NullTimestamp)
                   => result[i].expires_at.ms <= result[j].expires_at.ms

\* an unset expiry, then two different expiries in ascending order, while the
\* table also holds an expired row without refresh secret and a row that is
\* valid beyond the buffer
C38_Witness ==
  /\ last.op = "needing.refresh"
  /\ Len(last.result) = 3
  /\ last.result[1].expires_at = NullTimestamp
  /\ last.result[2].expires_at # NullTimestamp
  /\ last.result[3].expires_at # NullTimestamp
  /\ last.result[2].expires_at.ms < last.result[3].expires_at.ms
  /\ \E t \in oauth_tokens :
       t.refresh_token = NullColumn /\ t.expires_at = ToISOString(0)
  /\ \E t \in oauth_tokens :
       t.refresh_token # NullColumn /\ t.expires_at # NullTimestamp
         /\ t.expires_at.ms >= now + 5 * 60 * 1000

(***************************************************************************)
(* C39: with a finite page sequence listVideos ends; it never holds more    *)
(* than maxResults videos; no request asks for more than 50 items or more   *)
(* than the number still missing; and no request follows an empty page, a   *)
(* page without next-page token, or the collection of maxResults videos.    *)
(***************************************************************************)
ListEnded == callers.pc \in {"returned", "thrown"}

C39_ListVideosStops ==
  /\ [](/\ callers.videos <= callers.maxResults
        /\ last.op = "search.list" =>
             /\ last.maxResults <= 50
             /\ last.maxResults <= last.remaining
             /\ (last.items = 0 \/ ~last.nextPageToken) => callers.pc = "returned")
  /\ [][callers.videos >= callers.maxResults => last'.op # "search.list"]_vars
  /\ <>ListEnded

\* three pages collect the 120 videos asked for: the third request asks for
\* what is missing after two full pages
C39_Witness ==
  /\ callers.pc = "loop"
  /\ callers.maxResults = MaxRequested
  /\ callers.videos = MaxRequested
  /\ callers.pageToken = 3
  /\ last.op = "search.list"
  /\ last.maxResults = MaxRequested - 2 * 50
  /\ last.nextPageToken

====
